---- MODULE Spec2Model ----
(***************************************************************************)
(* A model of kivecli, the command-line client of the Kive server.         *)
(*                                                                         *)
(* One process runs one entry point (variable entry): the run poller, the  *)
(* paginated search, the purged-dataset resolution, the run-file           *)
(* collection, run submission, the top-level dispatcher, URL construction  *)
(* or a client of login().  The Kive server, the environment and the       *)
(* command line are the nondeterministic inputs.                           *)
(***************************************************************************)
EXTENDS Integers, Sequences, FiniteSets, TLC

(***************************************************************************)
(* Bounds of the model.                                                    *)
(***************************************************************************)
MaxUrlLen == 5      \* longest string handed to URL()
MaxFetch  == 3      \* most status fetches of one poll
MaxDepth  == 3      \* deepest nesting of login() scopes
MaxLogins == 3      \* most login_try calls of one process
MaxPages  == 2      \* most page requests of one search
MaxPageLen == 2     \* most elements of one page
MaxCand   == 2      \* most datasets one checksum search returns
MaxRunDatasets == 2 \* most datasets attached to one run
MaxInputs == 2      \* most input files given to the run command
MaxArgv   == 2      \* longest command line given to the dispatcher
MaxId     == 2      \* largest absolute value handed to an id wrapper
MaxStore  == 2      \* most datasets, and most batches, the server holds

Alphabet == {"a", "1", ":", "/", "?"}

VARIABLES
    entry,        \* the entry point this process runs
    pc,           \* position inside the entry point
    ret,          \* value returned by the entry point ("none" until then)
    raised,       \* exception propagated to the caller ("none" if none)
    env,          \* the three MICALL_KIVE_* environment variables
    credsOK,      \* whether the server accepts user and password
    session,      \* the ContextVar: 0 when unset, else the cached handle
    scopes,       \* open login() scopes, outermost first
    loginTries,   \* calls of login_try so far
    apiCount,     \* KiveAPI clients constructed so far
    loginReqs,    \* kive.login requests sent so far
    events,       \* poller: fetched states and sleeps, in order
    containerrun, \* poller: the run object held by the poller
    last_state,   \* poller: last state logged
    elapsed,      \* poller: seconds elapsed, as the poller measures them
    awaited,      \* poller: the run object returned to the caller
    value,        \* URL(): the string handed to the constructor
    url,          \* URL(): the constructed value, NoURL when none exists
    text,         \* URL(): str(url), once taken
    kind,         \* search: "runs" (findruns) or "datasets" (finddatasets)
    served,       \* search: what the server answered to the page requests
    data,         \* search: the page being iterated
    idx,          \* search: position of the next element of data
    nexturl,      \* search: the "next" link to follow, "" when none
    yielded,      \* search: the entities yielded to the consumer, in order
    logged,       \* search: the errors written to the log
    self,         \* Dataset.update: the dataset it is called on
    found,        \* what the server's checksum search returns, in order
    updated,      \* Dataset.update: the value returned
    run_datasets, \* collect_run_files: the run's dataset list on the server
    filefilter,   \* collect_run_files: the RunFilesFilter
    ci,           \* collect_run_files: position in run_datasets
    collected,    \* collect_run_files: the datasets yielded, in order
    outdir,       \* download: the output directory (made, files written)
    inputs,       \* run: number of input files on the command line
    input_appargs, \* run: number of input arguments the app declares
    dataset_list, \* run: the argument/dataset pairs of the run submitted
    effects,      \* run: the requests made to change the server, in order
    server,       \* run: the datasets and the batches the server holds
    argv,         \* dispatcher: the command line
    stdout,       \* dispatcher: the message written to standard output
    stderr,       \* dispatcher: the message written to standard error
    invoked,      \* dispatcher: the handler calls made, in order
    handler_rc,   \* dispatcher: what the handler returned, -1 before
    fn_arg,       \* a function called on its own: the argument
    fn_result     \* a function called on its own: what it returned

loginVars == <<env, credsOK, session, scopes, loginTries, apiCount, loginReqs>>
pollVars  == <<events, containerrun, last_state, elapsed, awaited>>
urlVars   == <<value, url, text>>
pageVars  == <<kind, served, data, idx, nexturl, yielded, logged>>
dsVars    == <<self, found, updated>>
collVars  == <<run_datasets, filefilter, ci, collected, outdir>>
runVars   == <<inputs, input_appargs, dataset_list, effects, server>>
mainVars  == <<argv, stdout, stderr, invoked, handler_rc>>
fnVars    == <<fn_arg, fn_result>>
vars == <<entry, pc, ret, raised, loginVars, pollVars, urlVars, pageVars,
          dsVars, collVars, runVars, mainVars, fnVars>>

\* What the actions of one component leave alone in the others.
othersLogin == <<pollVars, urlVars, pageVars, dsVars, collVars, runVars,
                 mainVars, fnVars>>
othersPoll  == <<urlVars, pageVars, dsVars, collVars, runVars, mainVars,
                 fnVars>>
othersURL   == <<loginVars, pollVars, pageVars, dsVars, collVars, runVars,
                 mainVars, fnVars>>
othersPage  == <<pollVars, urlVars, dsVars, collVars, runVars, mainVars,
                 fnVars>>
othersDs    == <<loginVars, pollVars, urlVars, pageVars, collVars, runVars,
                 mainVars, fnVars>>
othersColl  == <<pollVars, urlVars, pageVars, self, updated, runVars,
                 mainVars, fnVars>>
othersRun   == <<session, scopes, loginTries, urlVars, pageVars, dsVars,
                 collVars, mainVars, fnVars>>
othersMain  == <<loginVars, pollVars, urlVars, pageVars, dsVars, collVars,
                 runVars, fnVars>>
othersFn    == <<loginVars, pollVars, urlVars, pageVars, dsVars, collVars,
                 runVars, mainVars>>

(***************************************************************************)
(* Strings are sequences of one-character strings.                         *)
(***************************************************************************)
RECURSIVE StringsOfLen(_)
StringsOfLen(n) ==
    IF n = 0 THEN {<<>>}
    ELSE {Append(s, c) : s \in StringsOfLen(n - 1), c \in Alphabet}

Strings(n) == UNION {StringsOfLen(k) : k \in 0..n}

(***************************************************************************)
(* urllib.parse.urlparse, as far as scheme and netloc go.                  *)
(***************************************************************************)
ascii_alpha  == {"a", "A"}
scheme_chars == {"a", "A", "1", "+", "-", "."}

\* str.find(c, start), 1-based; 0 when c does not occur at or after start.
Find(s, c, start) ==
    IF \E i \in start..Len(s) : s[i] = c
    THEN CHOOSE i \in start..Len(s) :
             s[i] = c /\ \A k \in start..(i - 1) : s[k] # c
    ELSE 0

Lower(s) == [k \in 1..Len(s) |-> IF s[k] = "A" THEN "a" ELSE s[k]]

Min2(a, b) == IF a < b THEN a ELSE b

\* _splitnetloc(url, 2): the authority runs up to the first of "/", "?", "#".
cut(u, w) == IF w > 0 THEN w ELSE Len(u) + 1

splitnetloc(u) ==
    SubSeq(u, 3, Min2(cut(u, Find(u, "/", 3)),
                      Min2(cut(u, Find(u, "?", 3)),
                           cut(u, Find(u, "#", 3)))) - 1)

\* The scheme is the text before the first ":" (at position i) when it
\* starts with a letter and holds only scheme characters.
hasScheme(s, i) ==
    /\ i > 1
    /\ s[1] \in ascii_alpha
    /\ \A k \in 1..(i - 1) : s[k] \in scheme_chars

\* The netloc is what follows "//" in the rest of the URL.
netloc_of(rest) ==
    IF Len(rest) >= 2 /\ rest[1] = "/" /\ rest[2] = "/"
    THEN splitnetloc(rest) ELSE <<>>

urlsplit(s, i) ==
    IF hasScheme(s, i)
    THEN [scheme |-> Lower(SubSeq(s, 1, i - 1)),
          netloc |-> netloc_of(SubSeq(s, i + 1, Len(s)))]
    ELSE [scheme |-> <<>>, netloc |-> netloc_of(s)]

urlparse(s) == urlsplit(s, Find(s, ":", 1))

NoURL == [ok |-> FALSE, value |-> <<>>]

\* URL.__post_init__: the value exists only if both checks pass.
URL_mut_nonetloc(s) ==
    LET parsed == urlparse(s)
    IN  IF parsed.scheme = <<>> THEN [exc |-> "UserError", url |-> NoURL]
        ELSE [exc |-> "none", url |-> [ok |-> TRUE, value |-> s]]

URL(s) ==
    LET parsed == urlparse(s)
    IN  IF parsed.scheme = <<>> THEN [exc |-> "UserError", url |-> NoURL]
        ELSE IF parsed.netloc = <<>> THEN [exc |-> "UserError", url |-> NoURL]
        ELSE [exc |-> "none", url |-> [ok |-> TRUE, value |-> s]]

\* URL.__str__
URL_str(u) == <<"<">> \o u.value \o <<">">>

\* url_argument: the same two checks, then URL(string).
url_argument(s) ==
    LET parsed == urlparse(s)
    IN  IF parsed.scheme = <<>> THEN [exc |-> "UserError", url |-> NoURL]
        ELSE IF parsed.netloc = <<>> THEN [exc |-> "UserError", url |-> NoURL]
        ELSE URL(s)

(***************************************************************************)
(* login.py                                                                *)
(***************************************************************************)
GoodServer == <<"a", ":", "/", "/", "a">>
BadServer  == <<"a">>

EnvVar == [set : BOOLEAN, val : {GoodServer, BadServer}]
Envs == {e \in [server : EnvVar, user : BOOLEAN, password : BOOLEAN] :
            ~e.server.set => e.server.val = GoodServer}

\* login_try: what one call does, given the environment and the server's
\* verdict on the credentials.  api and req count the KiveAPI constructions
\* and the kive.login requests the call makes.
login_try_mut_late(e, creds) ==
    IF ~e.server.set
    THEN [exc |-> "UserError", api |-> 0, req |-> 0]
    ELSE IF URL(e.server.val).exc # "none"
    THEN [exc |-> "UserError", api |-> 0, req |-> 0]
    ELSE IF ~e.user \/ ~e.password
    THEN [exc |-> "UserError", api |-> 1, req |-> 0]
    ELSE IF ~creds
    THEN [exc |-> "UserError", api |-> 1, req |-> 1]
    ELSE [exc |-> "none", api |-> 1, req |-> 1]

login_try(e, creds) ==
    IF ~e.server.set
    THEN [exc |-> "UserError", api |-> 0, req |-> 0]
    ELSE IF ~e.user
    THEN [exc |-> "UserError", api |-> 0, req |-> 0]
    ELSE IF ~e.password
    THEN [exc |-> "UserError", api |-> 0, req |-> 0]
    ELSE IF URL(e.server.val).exc # "none"
    THEN [exc |-> "UserError", api |-> 0, req |-> 0]
    ELSE IF ~creds
    THEN [exc |-> "UserError", api |-> 1, req |-> 1]
    ELSE [exc |-> "none", api |-> 1, req |-> 1]

\* login(), entering the scope: reuse the cached session, or authenticate
\* and cache the new one.  The token says whether this scope set the
\* ContextVar, and holds the value from before the set.
login_enter_mut_always(sess, tries, e, creds) ==
    LET out == login_try(e, creds)
    IN  [exc |-> out.exc, tried |-> 1, api |-> out.api, req |-> out.req,
         token |-> [created |-> out.exc = "none", old |-> sess],
         kive |-> IF out.exc = "none" THEN tries + 1 ELSE sess]

login_enter(sess, tries, e, creds) ==
    IF sess # 0
    THEN [exc |-> "none", tried |-> 0, api |-> 0, req |-> 0,
          token |-> [created |-> FALSE, old |-> sess], kive |-> sess]
    ELSE LET out == login_try(e, creds)
         IN  [exc |-> out.exc, tried |-> 1, api |-> out.api, req |-> out.req,
              token |-> [created |-> out.exc = "none", old |-> sess],
              kive |-> IF out.exc = "none" THEN tries + 1 ELSE sess]

\* login(), leaving the scope (normally or by an exception of the body):
\* session.reset(token) restores the value from before the set.
login_exit_mut_keep(sess, token) == sess

login_exit(sess, token) == IF token.created THEN token.old ELSE sess

\* Leaving every open scope at once, as a propagating exception does.
RECURSIVE Unwind(_, _)
Unwind(sess, sc) ==
    IF sc = <<>> THEN sess
    ELSE Unwind(login_exit(sess, sc[Len(sc)].token),
                SubSeq(sc, 1, Len(sc) - 1))

(***************************************************************************)
(* await_containerrrun.py                                                  *)
(***************************************************************************)
ACTIVE_STATES == {"N", "S", "L", "R"}
FAIL_STATES   == {"X", "F"}
INTERVAL      == 1
MAX_WAIT      == [inf |-> TRUE, seconds |-> 0]      \* float("inf")

\* The states a server may report; "U" stands for any code outside RunState.
RunStates == {"N", "L", "R", "S", "C", "F", "X", "U"}

RunIdVal == 7
NoRun    == [id |-> 0, state |-> "", serial |-> 0]

\* elapsed < MAX_WAIT
WithinWait_mut_finite(e, m) == e < m.seconds

\* elapsed < MAX_WAIT
WithinWait(e, m) == m.inf \/ e < m.seconds

Fetches == SelectSeq(events, LAMBDA x : x # "sleep")
Sleeps  == SelectSeq(events, LAMBDA x : x = "sleep")

\* What the loop does with a fetched state: sleep and go round, or stop.
AfterFetch_mut_failsleeps(state) ==
    IF state \in ACTIVE_STATES \cup FAIL_STATES THEN "sleep" ELSE "returned"

AfterFetch(state) == IF state \in ACTIVE_STATES THEN "sleep" ELSE "returned"

(***************************************************************************)
(* Entities built from the server's JSON.  A JSON object is a record of    *)
(* its values together with the set of keys it lacks; JSON null is JNull.  *)
(***************************************************************************)
JNull == "null"
None  == "None"

NoEntity == [id |-> -1]
Raise(e) == [exc |-> e, val |-> NoEntity]
Return(v) == [exc |-> "none", val |-> v]

\* RunId, DatasetId, BatchId, ContainerAppId: NamedTuple subclasses.  A
\* NamedTuple is built by tuple.__new__ alone: nothing calls the
\* __post_init__ the class defines, so its test of the sign never runs.
RunId(v) == Return(v)
DatasetId(v) == Return(v)
BatchId(v) == Return(v)
ContainerAppId(v) == Return(v)

IdWrappers == {"RunId", "DatasetId", "BatchId", "ContainerAppId"}

construct(wrapper, v) ==
    CASE wrapper = "RunId" -> RunId(v)
      [] wrapper = "DatasetId" -> DatasetId(v)
      [] wrapper = "BatchId" -> BatchId(v)
      [] wrapper = "ContainerAppId" -> ContainerAppId(v)

\* Dataset._from_json
Dataset_from_json(raw) ==
    IF "id" \in raw.missing THEN Raise("KeyError")
    ELSE IF "MD5_checksum" \in raw.missing THEN Raise("KeyError")
    ELSE IF "url" \in raw.missing THEN Raise("KeyError")
    ELSE IF URL(raw.url).exc # "none" THEN Raise("UserError")
    ELSE IF "name" \in raw.missing THEN Raise("KeyError")
    ELSE IF "download_url" \in raw.missing THEN Raise("KeyError")
    ELSE IF URL(raw.download_url).exc # "none" THEN Raise("UserError")
    ELSE IF "is_purged" \in raw.missing THEN Raise("KeyError")
    ELSE Return([id |-> DatasetId(raw.id).val,
                 name |-> raw.name,
                 url |-> URL(raw.url).url,
                 download_url |-> URL(raw.download_url).url,
                 md5checksum |-> raw.MD5_checksum,
                 is_purged |-> raw.is_purged])

\* RunState(str(...)): the enum has exactly these codes.
RunState == {"N", "L", "R", "S", "C", "F", "X"}

\* datetime.fromisoformat / datetime.isoformat.  A datetime is the instant
\* with the flag of a UTC offset; NoTime stands for None.  The texts are
\* "t1", "t2" (naive, as isoformat writes them) and "t1Z" (UTC, written
\* back as "t1+00:00"); any other text is refused.
NoTime == [at |-> 0, utc |-> FALSE]

fromisoformat(s) ==
    CASE s = "t1" -> Return([at |-> 1, utc |-> FALSE])
      [] s = "t2" -> Return([at |-> 2, utc |-> FALSE])
      [] s = "t1Z" -> Return([at |-> 1, utc |-> TRUE])
      [] s = "t1+00:00" -> Return([at |-> 1, utc |-> TRUE])
      [] OTHER -> Raise("ValueError")

isoformat(d) ==
    CASE d = [at |-> 1, utc |-> FALSE] -> "t1"
      [] d = [at |-> 2, utc |-> FALSE] -> "t2"
      [] d = [at |-> 1, utc |-> TRUE] -> "t1+00:00"

\* KiveRun.from_json.  end_time_obj is assigned only on the branch where
\* start_time is not null, and read on both.
KiveRun_from_json(raw) ==
    IF "id" \in raw.missing THEN Raise("KeyError")
    ELSE IF "state" \in raw.missing THEN Raise("KeyError")
    ELSE IF raw.state \notin RunState THEN Raise("ValueError")
    ELSE IF "start_time" \in raw.missing THEN Raise("KeyError")
    ELSE IF raw.start_time = JNull THEN Raise("UnboundLocalError")
    ELSE IF fromisoformat(raw.start_time).exc # "none" THEN Raise("ValueError")
    ELSE IF "end_time" \in raw.missing THEN Raise("KeyError")
    ELSE IF raw.end_time # JNull /\ fromisoformat(raw.end_time).exc # "none"
    THEN Raise("ValueError")
    ELSE IF "name" \in raw.missing THEN Raise("KeyError")
    ELSE IF "url" \in raw.missing THEN Raise("KeyError")
    ELSE IF URL(raw.url).exc # "none" THEN Raise("UserError")
    ELSE IF "app_name" \in raw.missing THEN Raise("KeyError")
    ELSE IF "batch_name" \in raw.missing THEN Raise("KeyError")
    ELSE IF "dataset_list" \in raw.missing THEN Raise("KeyError")
    ELSE IF URL(raw.dataset_list).exc # "none" THEN Raise("UserError")
    ELSE Return([original_raw |-> raw,
                 id |-> RunId(raw.id).val,
                 state |-> raw.state,
                 start_time |-> fromisoformat(raw.start_time).val,
                 end_time |-> IF raw.end_time = JNull THEN NoTime
                              ELSE fromisoformat(raw.end_time).val,
                 name |-> raw.name,
                 url |-> URL(raw.url).url,
                 app_name |-> raw.app_name,
                 batch_name |-> IF raw.batch_name = JNull THEN "None"
                                ELSE raw.batch_name,
                 dataset_list |-> URL(raw.dataset_list).url])

\* KiveRun.is_finished
is_finished(run) == run.end_time # NoTime

\* KiveRun.raw: a copy of the original JSON with the typed fields written
\* back from the record.
KiveRun_raw(run) ==
    [run.original_raw EXCEPT
        !.id = run.id,
        !.state = run.state,
        !.start_time = IF run.start_time = NoTime THEN JNull
                       ELSE isoformat(run.start_time),
        !.end_time = IF run.end_time = NoTime THEN JNull
                     ELSE isoformat(run.end_time),
        !.name = run.name,
        !.url = run.url.value,
        !.app_name = run.app_name,
        !.batch_name = run.batch_name,
        !.dataset_list = run.dataset_list.value]

\* The JSON objects the model's server holds.
RawDataset(i, md5, purged) ==
    [missing |-> {}, id |-> i, MD5_checksum |-> md5, url |-> GoodServer,
     name |-> "f", download_url |-> GoodServer, is_purged |-> purged]

RawRun(i, state, start, end) ==
    [missing |-> {}, id |-> i, state |-> state, start_time |-> start,
     end_time |-> end, name |-> "r", url |-> GoodServer, app_name |-> "app",
     batch_name |-> JNull, dataset_list |-> GoodServer]

Lacking(raw, key) == [raw EXCEPT !.missing = {key}]

\* A run of the server with a batch name and a key the record has no field
\* for.
RunJson(state, start, end, batch) ==
    [missing |-> {}, id |-> 1, state |-> state, start_time |-> start,
     end_time |-> end, name |-> "r", url |-> GoodServer, app_name |-> "app",
     batch_name |-> batch, dataset_list |-> GoodServer, description |-> "d"]

\* The run JSON handed to KiveRun.from_json on its own.
RunJsons ==
    {RunJson(s, b, f, n) : s \in {"R", "C", "F"}, b \in {JNull, "t1", "t1Z"},
                           f \in {JNull, "t2"}, n \in {JNull, "b"}}
    \cup {Lacking(RunJson("C", "t1", "t2", "b"), "url")}

PageDatasets ==
    {RawDataset(1, "a", FALSE), RawDataset(2, "a", TRUE),
     Lacking(RawDataset(3, "a", FALSE), "name")}

PageRuns ==
    {RawRun(1, "C", "t1", "t2"), RawRun(2, "N", JNull, JNull),
     Lacking(RawRun(3, "R", "t1", JNull), "name")}

(***************************************************************************)
(* fetch_paginated_results (findruns.py, finddatasets.py)                  *)
(***************************************************************************)
from_json(k, raw) ==
    IF k = "runs" THEN KiveRun_from_json(raw) ELSE Dataset_from_json(raw)

RECURSIVE SeqsUpTo(_, _)
SeqsUpTo(S, n) ==
    IF n = 0 THEN {<<>>}
    ELSE LET shorter == SeqsUpTo(S, n - 1)
         IN  shorter \cup {Append(q, x) : q \in shorter, x \in S}

\* The runs served to findruns.main: two that convert, and an unstarted one.
MainRuns ==
    {RawRun(1, "C", "t1", "t2"), RawRun(2, "R", "t1", JNull),
     RawRun(3, "N", JNull, JNull)}

Elements(k) ==
    IF entry = "findruns.main" THEN MainRuns
    ELSE IF k = "runs" THEN PageRuns ELSE PageDatasets

\* What the server may answer to a page request: an exception of the
\* client library, or a JSON page, with or without "results" and "next".
NoPage == [hasResults |-> FALSE, results |-> <<>>, next |-> ""]
Answers(k) ==
    {[exc |-> e, page |-> NoPage] :
        e \in {"KiveServerException", "KiveClientException"}}
    \cup {[exc |-> "none", page |-> NoPage]}
    \cup {[exc |-> "none",
           page |-> [hasResults |-> TRUE, results |-> r, next |-> n]] :
              r \in SeqsUpTo(Elements(k), MaxPageLen), n \in {"", "next"}}

\* A server that has answered MaxPages requests goes on as a server whose
\* links never end: an empty page that carries a link, again and again.
\* These repeats are not added to served.
Endless ==
    [exc |-> "none",
     page |-> [hasResults |-> TRUE, results |-> <<>>, next |-> "next"]]

\* `for raw in data['results']` has run through the page: the element at
\* position i is past its end.
page_done_mut_eager(i, page) == i > 1 \/ page.results = <<>>

page_done(i, page) == i > Len(page.results)

\* `if not url: break`: the loop goes on while the link is a non-empty
\* string.
follows_mut_always(link) == TRUE

follows(link) == link # ""

\* The except clauses of the loop.
Caught_mut_noclient == {"KeyError", "KiveServerException"}

Caught == {"KeyError", "KiveServerException", "KiveClientException"}

(***************************************************************************)
(* findruns.main                                                           *)
(***************************************************************************)
\* The command lines given to findruns.
FindrunsArgvs == {<<>>, <<"--json">>, <<"--filter", "states", "F">>}

\* cli_parser().parse_args(argv): --filter is None unless given, page_size
\* defaults to 1000, --json to False.
findruns_parse(av) ==
    [filter |-> IF Len(av) = 3 /\ av[1] = "--filter"
                THEN <<[key |-> av[2], val |-> av[3]]>> ELSE <<>>,
     page_size |-> 1000,
     json |-> av = <<"--json">>]

\* findruns.build_search_query(args): enumerate numbers the filters from 0.
findruns_build_search_query(args) ==
    [page_size |-> args.page_size,
     filters |-> {[i |-> k - 1, key |-> args.filter[k].key,
                   val |-> args.filter[k].val] : k \in 1..Len(args.filter)}]

\* What the loop body of main writes for the run numbered i (from 0).
findruns_write_mut_index(is_json, i, run) ==
    IF is_json
    THEN (IF i > 0 THEN <<[write |-> ","]>> ELSE <<>>)
            \o <<[dump |-> KiveRun_raw(run)]>>
    ELSE <<[print |-> ToString(i)]>>

findruns_write(is_json, i, run) ==
    IF is_json
    THEN (IF i > 0 THEN <<[write |-> ","]>> ELSE <<>>)
            \o <<[dump |-> KiveRun_raw(run)]>>
    ELSE <<[print |-> ToString(run.id)]>>

\* The runs main has written so far.
RunsWritten(out) ==
    Cardinality({k \in 1..Len(out) : DOMAIN out[k] \cap {"print", "dump"} # {}})

(***************************************************************************)
(* finddatasets.build_search_query and dataset.py                          *)
(***************************************************************************)
DEFAULT_PAGESIZE == 10

\* A call with keyword arguments kw (a record of the arguments supplied).
\* The three parameters have no defaults: a call that leaves one out
\* raises TypeError before the body runs.  enumerate numbers name 0 and
\* md5 1 whether or not they are None.
build_search_query(kw) ==
    IF {"name", "md5", "page_size"} \ DOMAIN kw # {}
    THEN [exc |-> "TypeError", query |-> [page_size |-> 0, filters |-> {}]]
    ELSE [exc |-> "none",
          query |-> [page_size |-> kw.page_size,
                     filters |->
                        {[i |-> 0, key |-> "name", val |-> kw.name] :
                            x \in IF kw.name # None THEN {0} ELSE {}}
                        \cup
                        {[i |-> 1, key |-> "md5", val |-> kw.md5] :
                            x \in IF kw.md5 # None THEN {0} ELSE {}}]]

(***************************************************************************)
(* build_search_query of findbatches.py, findapps.py and                   *)
(* findcontainerfamilies.py                                                *)
(***************************************************************************)
\* The optional filters of each module's build_search_query, in the order
\* of its loop.
filter_keys(module) ==
    CASE module = "finddatasets" -> <<"name", "md5">>
      [] module = "findbatches" -> <<"name", "description">>
      [] module = "findapps" -> <<"name", "container_name">>
      [] module = "findcontainerfamilies" ->
            <<"name", "git", "description", "user">>

FindModules ==
    {"finddatasets", "findbatches", "findapps", "findcontainerfamilies"}

\* i = 0; for key, val in [...]: if val is None: continue; ...; i += 1
\* The filter of a value is numbered by the values before it that are not
\* None.
counted_filters(keys, vals) ==
    {[i |-> Cardinality({j \in 1..(k - 1) : vals[j] # None}),
      key |-> keys[k], val |-> vals[k]] :
        k \in {k \in 1..Len(keys) : vals[k] # None}}

\* build_search_query of the module, for the values vals of its filters.
module_build_search_query(module, page_size, vals) ==
    IF module = "finddatasets"
    THEN build_search_query([name |-> vals[1], md5 |-> vals[2],
                             page_size |-> page_size]).query
    ELSE [page_size |-> page_size,
          filters |-> counted_filters(filter_keys(module), vals)]

\* The calls: each filter value given, or None.
QueryCalls ==
    UNION {{[module |-> mod, vals |-> v] :
               v \in [1..Len(filter_keys(mod)) -> {None, "a"}]} :
           mod \in FindModules}

NoDataset == [id |-> -1, name |-> "", url |-> NoURL, download_url |-> NoURL,
              md5checksum |-> "", is_purged |-> FALSE]

\* Dataset.iterate_isomorphic: build_search_query(md5=md5), then the
\* search; answer is what the search yields for that query.
iterate_isomorphic(this, answer) ==
    LET q == build_search_query([md5 |-> this.md5checksum])
    IN  IF q.exc # "none" THEN [exc |-> q.exc, seq |-> <<>>]
        ELSE [exc |-> "none", seq |-> answer]

\* Dataset.update: the first candidate that ends the loop decides.
update(this, answer) ==
    LET it    == iterate_isomorphic(this, answer)
        stops(d) == d.md5checksum # this.md5checksum \/ ~d.is_purged
    IN  IF it.exc # "none" THEN [exc |-> it.exc, val |-> NoDataset]
        ELSE IF \A j \in 1..Len(it.seq) : ~stops(it.seq[j])
        THEN [exc |-> "none", val |-> NoDataset]
        ELSE LET j == CHOOSE j \in 1..Len(it.seq) :
                         /\ stops(it.seq[j])
                         /\ \A i \in 1..(j - 1) : ~stops(it.seq[i])
             IN  IF it.seq[j].md5checksum # this.md5checksum
                 THEN [exc |-> "ValueError", val |-> NoDataset]
                 ELSE [exc |-> "none", val |-> it.seq[j]]

DatasetOf(i, md5, purged) == Dataset_from_json(RawDataset(i, md5, purged)).val

Candidates ==
    {DatasetOf(11, "a", TRUE), DatasetOf(12, "a", FALSE),
     DatasetOf(13, "a", FALSE), DatasetOf(14, "b", FALSE)}

(***************************************************************************)
(* datasetinfo.py, runfilesfilter.py, collect_run_files.py                 *)
(***************************************************************************)
ArgumentType == {"I", "O"}
ArgumentNames == {"out", "log"}

\* DatasetInfo.coerce
DatasetInfo_coerce(d) ==
    IF d.argument_type \notin ArgumentType THEN Raise("ValueError")
    ELSE IF URL(d.dataset).exc # "none" THEN Raise("UserError")
    ELSE Return([argument_type |-> d.argument_type,
                 argument_name |-> d.argument_name,
                 url |-> URL(d.dataset).url])

\* RunFilesFilter.matches; the pattern is given by the names it matches.
matches(f, info) ==
    info.argument_type \in f.argument_type /\ info.argument_name \in f.name

\* RunFilesFilter.default
RunFilesFilter_default == [argument_type |-> {"O"}, name |-> ArgumentNames]

\* One entry of a run's dataset list, with the JSON the server holds at
\* the entry's dataset URL.
RunDatasetEntries ==
    [argument_type : ArgumentType, argument_name : ArgumentNames,
     dataset : {GoodServer},
     at : {RawDataset(1, "a", FALSE), RawDataset(2, "a", TRUE)}]

Filters ==
    {RunFilesFilter_default,
     [argument_type |-> {"I"}, name |-> ArgumentNames],
     [argument_type |-> {"I", "O"}, name |-> {"out"}]}

\* The body of the loop without the test of is_purged.
collect_one_mut_yieldpurged(f, e, answer) ==
    LET info == DatasetInfo_coerce(e)
    IN  IF info.exc # "none" THEN [exc |-> info.exc, yields |-> <<>>]
        ELSE IF ~matches(f, info.val) THEN [exc |-> "none", yields |-> <<>>]
        ELSE LET got == Dataset_from_json(e.at)
             IN  IF got.exc # "none" THEN [exc |-> got.exc, yields |-> <<>>]
                 ELSE [exc |-> "none", yields |-> <<got.val>>]

\* The body of the loop for one entry: nothing, a dataset to yield, or an
\* exception.
collect_one(f, e, answer) ==
    LET info == DatasetInfo_coerce(e)
    IN  IF info.exc # "none" THEN [exc |-> info.exc, yields |-> <<>>]
        ELSE IF ~matches(f, info.val) THEN [exc |-> "none", yields |-> <<>>]
        ELSE LET got == Dataset_from_json(e.at)
             IN  IF got.exc # "none" THEN [exc |-> got.exc, yields |-> <<>>]
                 ELSE IF ~got.val.is_purged
                 THEN [exc |-> "none", yields |-> <<got.val>>]
                 ELSE LET new == update(got.val, answer)
                      IN  IF new.exc # "none"
                          THEN [exc |-> new.exc, yields |-> <<>>]
                          ELSE IF new.val = NoDataset
                          THEN [exc |-> "UserError", yields |-> <<>>]
                          ELSE [exc |-> "none", yields |-> <<new.val>>]

(***************************************************************************)
(* download.py                                                             *)
(***************************************************************************)
\* The parameters of collect_run_files, in order.
collect_run_files_params == <<"containerrun", "filefilter">>

\* A call of collect_run_files with the positional arguments args: Python
\* binds them to the parameters and raises TypeError when there are more
\* arguments than parameters, or a parameter is left without one.
collect_run_files_call(args) ==
    IF Len(args) # Len(collect_run_files_params) THEN "TypeError" ELSE "none"

\* The parameters of findrun.find_run, in order.
find_run_params == <<"kive", "run_id">>

find_run_call(args) ==
    IF Len(args) # Len(find_run_params) THEN "TypeError" ELSE "none"

\* stop.main inside its login scope: find_run(args.run_id); print_run;
\* `if containerrun.is_finished: return 0`; KiveRun.post(runid, data).
\* find_run returns the server's JSON object, which has no attribute
\* state; KiveRun has no attribute post.
stop_main(run_id, run) ==
    LET call == find_run_call(<<run_id>>)
    IN  IF call # "none" THEN [exc |-> call, ret |-> -1, posts |-> <<>>]
        ELSE [exc |-> "AttributeError", ret |-> -1, posts |-> <<>>]

(***************************************************************************)
(* check_rerun.py                                                          *)
(***************************************************************************)
\* check_dataset_availability: the dataset itself, or the alternative that
\* Dataset.update finds for a purged one.
check_dataset_availability(dataset, answer) ==
    IF ~dataset.is_purged
    THEN Return([dataset |-> dataset, is_available |-> TRUE,
                 alternative_dataset |-> NoDataset])
    ELSE IF update(dataset, answer).exc # "none"
    THEN Raise(update(dataset, answer).exc)
    ELSE Return([dataset |-> dataset,
                 is_available |-> update(dataset, answer).val # NoDataset,
                 alternative_dataset |-> update(dataset, answer).val])

\* The names defined in class RunFilesFilter.
RunFilesFilter_names == {"matches", "__str__", "parse", "default"}

\* check_rerun_inputs: RunFilesFilter.make([ArgumentType.INPUT], ".*"),
\* then one status for every entry of the run's dataset list that the
\* filter matches.
check_rerun_inputs(crun, answer) ==
    IF "make" \notin RunFilesFilter_names THEN Raise("AttributeError")
    ELSE Return([all_available |->
                   \A k \in 1..Len(crun) :
                     crun[k].argument_type = "I" =>
                       check_dataset_availability(
                           Dataset_from_json(crun[k].at).val,
                           answer).val.is_available])

\* check_rerun.main_typed inside its login scope:
\*   containerrun = find_run(run_id); result = check_rerun_inputs(...)
\* and then `return 0 if result.all_available else 1`.
check_rerun_main_typed(run_id, crun, answer) ==
    IF find_run_call(<<run_id>>) # "none"
    THEN [exc |-> find_run_call(<<run_id>>), ret |-> -1]
    ELSE IF check_rerun_inputs(crun, answer).exc # "none"
    THEN [exc |-> check_rerun_inputs(crun, answer).exc, ret |-> -1]
    ELSE [exc |-> "none",
          ret |-> IF check_rerun_inputs(crun, answer).val.all_available
                  THEN 0 ELSE 1]

\* collect_run_outputs(kive, containerrun):
\*   yield from collect_run_files(kive, matches, containerrun)
\* with the local predicate matches: argument_type == "O".
collect_run_outputs(kive, crun) ==
    LET call == collect_run_files_call(<<kive, "matches", crun>>)
    IN  IF call # "none" THEN [exc |-> call, seq |-> <<>>]
        ELSE [exc |-> "none",
              seq |-> SelectSeq(crun, LAMBDA d : d.argument_type = "O")]

\* The parameters of download.main_parsed, in order.
main_parsed_params == <<"kive", "output", "run_id", "nowait">>

\* The calls of main_parsed: the one of download.main, by keywords, and
\* the one of tests/test_commands.py, with output as the positional
\* argument.
MainParsedCalls ==
    {[positional |-> 0, keywords |-> {"kive", "output", "run_id", "nowait"}],
     [positional |-> 1, keywords |-> {"run_id", "nowait", "filefilter"}]}

\* Python binds the positional arguments to the first parameters and the
\* keywords by name: TypeError for a keyword that is no parameter or is
\* bound already, and for a parameter left without an argument.
main_parsed_call(c) ==
    LET bound == {main_parsed_params[k] : k \in 1..c.positional}
        names == {main_parsed_params[k] : k \in 1..Len(main_parsed_params)}
    IN  IF c.positional > Len(main_parsed_params) THEN "TypeError"
        ELSE IF ~(c.keywords \subseteq names \ bound) THEN "TypeError"
        ELSE IF bound \cup c.keywords # names THEN "TypeError"
        ELSE "none"

\* The dataset lists of the runs that download.main_parsed is called for.
DownloadRuns ==
    {<<>>,
     <<[argument_type |-> "O", argument_name |-> "out",
        dataset |-> GoodServer, at |-> RawDataset(1, "a", FALSE)]>>,
     <<[argument_type |-> "I", argument_name |-> "log",
        dataset |-> GoodServer, at |-> RawDataset(1, "a", FALSE)],
       [argument_type |-> "O", argument_name |-> "out",
        dataset |-> GoodServer, at |-> RawDataset(2, "a", TRUE)]>>}

\* main_with_run: `if not nowait: await_containerrun(kive, containerrun)`,
\* then main_after_wait.
main_with_run(nowait) == IF ~nowait THEN "loop" ELSE "after_wait"

NoDir == [made |-> FALSE, files |-> <<>>]

\* download_results(datasets, output): makedirs, then one file a dataset.
download_results(datasets) ==
    [made |-> TRUE,
     files |-> [k \in 1..Len(datasets) |-> datasets[k].at.id]]

(***************************************************************************)
(* runkive.py                                                              *)
(***************************************************************************)
\* main, from the environment checks to the login: KiveAPI(server) is
\* built from the variable as it is, then kive.login is sent.
runkive_login(e, creds) ==
    IF ~e.server.set
    THEN [exc |-> "UserError", api |-> 0, req |-> 0]
    ELSE IF ~e.user
    THEN [exc |-> "UserError", api |-> 0, req |-> 0]
    ELSE IF ~e.password
    THEN [exc |-> "UserError", api |-> 0, req |-> 0]
    ELSE IF ~creds
    THEN [exc |-> "UserError", api |-> 1, req |-> 1]
    ELSE [exc |-> "none", api |-> 1, req |-> 1]

ALLOWED_GROUPS == {"Everyone"}

\* None where a dataset or a batch of the server is expected, and an
\* optional list of groups (or users): None, or the groups of val.
NoItem == [name |-> "", md5 |-> "", fresh |-> FALSE, groups_allowed |-> {}]
NoList == [given |-> FALSE, val |-> {}]
List(S) == [given |-> TRUE, val |-> S]

\* find_name_and_permissions_match(items, name, type_name): the first item
\* that has the name (any name when name is None) and whose allowed groups
\* lack none of ALLOWED_GROUPS; None when there is none.
find_name_and_permissions_match_mut_anygroups(items, name) ==
    LET ok(item) == name = None \/ item.name = name
    IN  IF \A j \in 1..Len(items) : ~ok(items[j]) THEN NoItem
        ELSE items[CHOOSE j \in 1..Len(items) :
                      /\ ok(items[j])
                      /\ \A i \in 1..(j - 1) : ~ok(items[i])]

find_name_and_permissions_match(items, name) ==
    LET needed_groups == ALLOWED_GROUPS
        ok(item) == /\ name = None \/ item.name = name
                    /\ needed_groups \ item.groups_allowed = {}
    IN  IF \A j \in 1..Len(items) : ~ok(items[j]) THEN NoItem
        ELSE items[CHOOSE j \in 1..Len(items) :
                      /\ ok(items[j])
                      /\ \A i \in 1..(j - 1) : ~ok(items[i])]

\* find_kive_dataset(session, source_file, dataset_name): the server's
\* answer to datasets.filter('md5', checksum, 'uploaded', True) is the
\* uploaded datasets it holds with that checksum, in its order.
find_kive_dataset(store, checksum) ==
    find_name_and_permissions_match(
        SelectSeq(store, LAMBDA d : d.md5 = checksum), None)

\* The datasets a server may hold (fresh marks the ones created since the
\* process began), and the arguments of the run command: a
\* local file (with the checksum of its content) or a URL (with the JSON
\* the server answers at it, None when it answers nothing usable).
StoredDatasets ==
    [name : {"f"}, md5 : {"a", "b"}, fresh : {FALSE},
     groups_allowed : {{}, {"Everyone"}, {"Everyone", "Staff"}}]

InputPaths ==
    [kind : {"Path"}, name : {"f"}, md5 : {"a"}, json : {NoItem},
     users : {NoList}, groups : {NoList, List(ALLOWED_GROUPS)}]
    \cup
    [kind : {"URL"}, name : {"f"}, md5 : {""},
     json : {NoItem, [name |-> "f", md5 |-> "b", fresh |-> FALSE,
                      groups_allowed |-> {}]},
     users : {NoList}, groups : {NoList, List(ALLOWED_GROUPS)}]

\* upload_or_retrieve_dataset(session, name, inputpath, users, groups);
\* added is how session.add_dataset ends, should it be called.
upload_or_retrieve_dataset(store, arg, added) ==
    LET known == IF arg.kind = "Path"
                 THEN find_kive_dataset(store, arg.md5)
                 ELSE arg.json
        new == [name |-> arg.name, md5 |-> arg.md5, fresh |-> TRUE,
                groups_allowed |-> arg.groups.val]
        same(out) == [exc |-> out.exc, val |-> out.val, store |-> store,
                      requests |-> <<>>]
    IN  IF ~arg.users.given /\ ~arg.groups.given
        THEN same([exc |-> "ValueError", val |-> NoItem])
        ELSE IF known # NoItem THEN same(Return(known))
        ELSE IF arg.kind = "URL" THEN same(Return(NoItem))
        ELSE IF added = "ok"
        THEN [exc |-> "none", val |-> new, store |-> Append(store, new),
              requests |-> <<"add_dataset">>]
        ELSE IF added = "KiveMalformedDataException"
        \* session.find_dataset(name=name)[0]
        THEN LET named == SelectSeq(store, LAMBDA d : d.name = arg.name)
             IN  [exc |-> IF named = <<>> THEN "IndexError" ELSE "none",
                  val |-> IF named = <<>> THEN NoItem ELSE named[1],
                  store |-> store, requests |-> <<"add_dataset">>]
        ELSE [exc |-> added, val |-> NoItem, store |-> store,
              requests |-> <<"add_dataset">>]

\* The batches a server may hold: a name, the allowed groups, and the runs
\* of the batch as the server serializes them.
StoredBatches ==
    [id : {1}, name : {"b", "c"}, fresh : {FALSE},
     groups_allowed : {{}, {"Everyone"}, {"Everyone", "Staff"}},
     runs : {<<>>, <<RawRun(2, "N", JNull, JNull)>>}]

NewBatch(name, groups) ==
    [id |-> 2, name |-> name, fresh |-> TRUE, groups_allowed |-> groups,
     runs |-> <<>>]

\* The server's answer to a search of the batches by name.
BatchesNamed(store, name) == SelectSeq(store, LAMBDA b : b.name = name)

\* create_batch(kive, name) of runkive.py
create_batch(store, name) ==
    LET old_batches == BatchesNamed(store, name)
        batch == find_name_and_permissions_match(old_batches, name)
        new == NewBatch(name, ALLOWED_GROUPS)
    IN  IF batch = NoItem
        THEN [exc |-> "none", val |-> new, store |-> Append(store, new),
              requests |-> <<"batches.post">>]
        ELSE [exc |-> "none", val |-> batch, store |-> store,
              requests |-> <<>>]

\* The first exception in a sequence of outcomes, "none" when there is none.
FirstExc(excs) ==
    IF \A k \in 1..Len(excs) : excs[k] = "none" THEN "none"
    ELSE excs[CHOOSE k \in 1..Len(excs) :
                 /\ excs[k] # "none"
                 /\ \A i \in 1..(k - 1) : excs[i] = "none"]

\* The batch record, or the exception met on the way to it.
batch_or(exc, raw) ==
    IF exc # "none" THEN [exc |-> exc, val |-> NoItem]
    ELSE [exc |-> "none", val |-> raw]

\* KiveBatch.__from_json: the runs of the batch are parsed by
\* KiveRun.from_json, whose exception, if any, is the batch's.
KiveBatch_from_json(raw) ==
    batch_or(FirstExc([k \in 1..Len(raw.runs) |->
                          KiveRun_from_json(raw.runs[k]).exc]), raw)

\* The loop of find_or_create over the parsed results: it ends at the
\* first result that fails to parse or whose groups are the groups asked
\* for; when it ends at none, the batch is posted and parsed.
find_or_create_loop(store, parsed, groups_allowed, new, posted) ==
    IF \A j \in 1..Len(parsed) :
          /\ parsed[j].exc = "none"
          /\ parsed[j].val.groups_allowed # groups_allowed
    THEN [exc |-> posted.exc, val |-> new, store |-> Append(store, new),
          requests |-> <<"batches.post">>]
    ELSE LET j == CHOOSE j \in 1..Len(parsed) :
                     /\ \/ parsed[j].exc # "none"
                        \/ parsed[j].val.groups_allowed = groups_allowed
                     /\ \A i \in 1..(j - 1) :
                           /\ parsed[i].exc = "none"
                           /\ parsed[i].val.groups_allowed # groups_allowed
         IN  [exc |-> parsed[j].exc, val |-> parsed[j].val, store |-> store,
              requests |-> <<>>]

\* KiveBatch.find_or_create(name, groups_allowed): every result is parsed,
\* then its groups are compared with the groups asked for, as sets.
find_or_create(store, name, groups_allowed) ==
    find_or_create_loop(
        store,
        [j \in 1..Len(BatchesNamed(store, name)) |->
            KiveBatch_from_json(BatchesNamed(store, name)[j])],
        groups_allowed,
        NewBatch(name, groups_allowed),
        KiveBatch_from_json(NewBatch(name, groups_allowed)))

BatchEntries == {"create_batch", "KiveBatch.find_or_create"}

attach_batch(how, store, arg) ==
    IF how = "create_batch" THEN create_batch(store, arg.name)
    ELSE find_or_create(store, arg.name, arg.groups_allowed)

\* main, the test of the number of inputs against the input arguments
\* the app declares.
count_inputs_mut_never(n_inputs, n_appargs) == "none"

count_inputs(n_inputs, n_appargs) ==
    IF n_inputs > n_appargs THEN "UserError" ELSE "none"

\* k times x.
Repeat(x, k) == [j \in 1..k |-> x]

\* zip(a, b) of the sequences 1..na and 1..nb: pairs up to the shorter.
Zip(na, nb) == [k \in 1..Min2(na, nb) |-> [argument |-> k, dataset |-> k]]

\* main, the last statement: the exit status.
exit_status_mut_unknown(state) == IF state \in FAIL_STATES THEN 1 ELSE 0

exit_status(state) == IF state = "C" THEN 0 ELSE 1

(***************************************************************************)
(* __main__.py                                                             *)
(***************************************************************************)
PROGRAMS == <<"run", "rerun", "check_rerun", "download", "watch",
              "createzipapp", "zip", "findruns", "findrun", "stop",
              "findbatches", "finddatasets", "findapps", "upload_dataset",
              "makecontainer", "findcontainerfamilies">>

ProgramNames == {PROGRAMS[k] : k \in 1..Len(PROGRAMS)}

NoCall == [handler |-> "", arguments |-> <<>>]

\* The if/elif chain: the module whose main is called for a program.
handler_of(program) ==
    CASE program = "run" -> "runkive"
      [] program = "zip" -> "kiveclizip"
      [] program = "rerun" -> "rerun"
      [] program = "check_rerun" -> "check_rerun"
      [] program = "watch" -> "watch"
      [] program = "createzipapp" -> "createzipapp"
      [] program = "download" -> "kivedownload"
      [] program = "findruns" -> "findruns"
      [] program = "findrun" -> "findrun"
      [] program = "stop" -> "stop"
      [] program = "findbatches" -> "findbatches"
      [] program = "finddatasets" -> "finddatasets"
      [] program = "findapps" -> "findapps"
      [] program = "upload_dataset" -> "upload_dataset"
      [] program = "makecontainer" -> "makecontainer"
      [] program = "findcontainerfamilies" -> "findcontainerfamilies"
      [] OTHER -> "RuntimeError"

\* main(argv) up to the handler call: what is printed where, the value
\* returned at once (-1 when a handler is called instead), and the call.
dispatch_mut_nocheck(av) ==
    IF Len(av) < 1
    THEN [out |-> "", err |-> "PROGRAM_MISSING_MESSAGE", rc |-> 1,
          call |-> NoCall]
    ELSE IF av[1] = "-h" \/ av[1] = "--help"
    THEN [out |-> "HELP_MESSAGE", err |-> "", rc |-> 0, call |-> NoCall]
    ELSE [out |-> "", err |-> "", rc |-> -1,
          call |-> [handler |-> handler_of(av[1]), arguments |-> Tail(av)]]

dispatch(av) ==
    IF Len(av) < 1
    THEN [out |-> "", err |-> "PROGRAM_MISSING_MESSAGE", rc |-> 1,
          call |-> NoCall]
    ELSE IF av[1] = "-h" \/ av[1] = "--help"
    THEN [out |-> "HELP_MESSAGE", err |-> "", rc |-> 0, call |-> NoCall]
    ELSE IF av[1] \notin ProgramNames
    THEN [out |-> "", err |-> "PROGRAM_ERROR_MESSAGE", rc |-> 1,
          call |-> NoCall]
    ELSE [out |-> "", err |-> "", rc |-> -1,
          call |-> [handler |-> handler_of(av[1]), arguments |-> Tail(av)]]

\* The words a command line is made of here.
Words == ProgramNames \cup {"-h", "--help", "frobnicate"}

(***************************************************************************)
(* Initial states: one entry point per process, with its inputs.           *)
(***************************************************************************)
Entries == {"login", "await_containerrun", "URL", "fetch_paginated_results",
            "Dataset.update", "collect_run_files", "runkive.main",
            "__main__.main", "url_argument", "download.main_after_wait",
            "download.main_parsed"}
           \cup IdWrappers \cup {"upload_or_retrieve_dataset"}
           \cup BatchEntries \cup {"KiveRun.from_json", "stop.main"}
           \cup {"findruns.main", "check_rerun.main_typed",
                 "build_search_query"}

UsesLogin == {"login", "await_containerrun", "fetch_paginated_results",
              "runkive.main"}
DefaultEnv == [server |-> [set |-> TRUE, val |-> GoodServer],
               user |-> TRUE, password |-> TRUE]

InitLogin ==
    /\ env \in (IF entry \in UsesLogin THEN Envs ELSE {DefaultEnv})
    /\ credsOK \in (IF entry \in UsesLogin THEN BOOLEAN ELSE {TRUE})
    /\ \/ /\ session = 0
          /\ scopes = <<>>
          /\ loginTries = 0
          /\ apiCount = 0
          /\ loginReqs = 0
       \* watch.main calls the poller inside its own login() scope.
       \/ /\ entry = "await_containerrun"
          /\ login_try(env, credsOK).exc = "none"
          /\ session = 1
          /\ scopes = <<[token |-> [created |-> TRUE, old |-> 0], kive |-> 1]>>
          /\ loginTries = 1
          /\ apiCount = 1
          /\ loginReqs = 1

InitPoll ==
    /\ events = <<>>
    /\ containerrun = [id |-> RunIdVal, state |-> "N", serial |-> 0]
    /\ last_state = ""
    /\ elapsed = 0
    /\ awaited = NoRun

InitURL ==
    /\ value \in (IF entry \in {"URL", "url_argument"}
                  THEN Strings(MaxUrlLen) ELSE {<<>>})
    /\ url = NoURL
    /\ text = <<>>

InitPage ==
    /\ kind \in (IF entry = "findruns.main" THEN {"runs"}
                 ELSE IF entry = "fetch_paginated_results"
                 THEN {"runs", "datasets"} ELSE {"datasets"})
    /\ served = <<>>
    /\ data = NoPage
    /\ idx = 1
    /\ nexturl = ""
    /\ yielded = <<>>
    /\ logged = <<>>

InitDs ==
    /\ self \in (IF entry = "Dataset.update"
                 THEN {DatasetOf(1, "a", TRUE), DatasetOf(2, "a", FALSE)}
                 ELSE {NoDataset})
    /\ found \in (IF entry = "Dataset.update"
                  THEN SeqsUpTo(Candidates, MaxCand)
                  ELSE IF entry \in {"collect_run_files",
                                      "check_rerun.main_typed"}
                  THEN SeqsUpTo({DatasetOf(11, "a", TRUE),
                                 DatasetOf(12, "a", FALSE)}, MaxCand)
                  ELSE {<<>>})
    /\ updated = NoDataset

InitColl ==
    /\ run_datasets \in (IF entry = "download.main_parsed" THEN DownloadRuns
                         ELSE IF entry \in {"collect_run_files",
                                       "download.main_after_wait",
                                       "check_rerun.main_typed"}
                         THEN SeqsUpTo(RunDatasetEntries, MaxRunDatasets)
                         ELSE {<<>>})
    /\ filefilter \in (IF entry = "collect_run_files"
                       THEN Filters ELSE {RunFilesFilter_default})
    /\ ci = 1
    /\ collected = <<>>
    /\ outdir = NoDir

NoServer == [datasets |-> <<>>, batches |-> <<>>]

InitRun ==
    /\ inputs \in (IF entry = "runkive.main" THEN 0..MaxInputs ELSE {0})
    /\ input_appargs \in (IF entry = "runkive.main"
                          THEN 0..(MaxInputs + 1) ELSE {0})
    /\ dataset_list = <<>>
    /\ effects = <<>>
    /\ server \in (IF entry = "upload_or_retrieve_dataset"
                   THEN [datasets : SeqsUpTo(StoredDatasets, MaxStore),
                         batches : {<<>>}]
                   ELSE IF entry \in BatchEntries
                   THEN [datasets : {<<>>},
                         batches : SeqsUpTo(StoredBatches, MaxStore)]
                   ELSE {NoServer})

InitMain ==
    /\ argv \in (IF entry = "__main__.main"
                 THEN SeqsUpTo(Words, MaxArgv) ELSE {<<>>})
    /\ stdout = IF entry = "findruns.main" THEN <<>> ELSE ""
    /\ stderr = ""
    /\ invoked = <<>>
    /\ handler_rc = -1

NoResult == [exc |-> "none", val |-> None]

InitFn ==
    /\ fn_arg \in (IF entry \in IdWrappers THEN (0 - MaxId)..MaxId
                   ELSE IF entry = "upload_or_retrieve_dataset"
                   THEN InputPaths
                   ELSE IF entry \in BatchEntries
                   THEN {[name |-> "b", groups_allowed |-> ALLOWED_GROUPS]}
                   ELSE IF entry \in {"KiveRun.from_json", "stop.main"}
                   THEN RunJsons
                   ELSE IF entry = "findruns.main" THEN FindrunsArgvs
                   ELSE IF entry = "build_search_query" THEN QueryCalls
                   ELSE IF entry = "download.main_parsed"
                   THEN [nowait : BOOLEAN, call : MainParsedCalls]
                   ELSE {0})
    /\ fn_result = NoResult

InitOf(entries) ==
    /\ entry \in entries
    /\ InitFn
    /\ pc = "start"
    /\ ret = -1
    /\ raised = "none"
    /\ InitLogin
    /\ InitPoll
    /\ InitURL
    /\ InitPage
    /\ InitDs
    /\ InitColl
    /\ InitRun
    /\ InitMain

Init == InitOf(Entries)

(***************************************************************************)
(* A client of login(): scopes opened and closed in any order.             *)
(***************************************************************************)
\* `with login() as kive:` is entered.
LoginEnter ==
    /\ entry = "login"
    /\ pc = "start"
    /\ Len(scopes) < MaxDepth
    /\ loginTries < MaxLogins
    /\ LET out == login_enter(session, loginTries, env, credsOK)
       IN  /\ loginTries' = loginTries + out.tried
           /\ apiCount' = apiCount + out.api
           /\ loginReqs' = loginReqs + out.req
           /\ IF out.exc = "none"
              THEN /\ session' = out.kive
                   /\ scopes' = Append(scopes, [token |-> out.token,
                                                kive |-> out.kive])
                   /\ UNCHANGED <<pc, raised>>
              ELSE /\ session' = Unwind(session, scopes)
                   /\ scopes' = <<>>
                   /\ pc' = "raised"
                   /\ raised' = out.exc
    /\ UNCHANGED <<entry, ret, env, credsOK, othersLogin>>

\* The innermost scope is left, by normal exit or by its body raising.
LoginExit ==
    /\ entry = "login"
    /\ pc = "start"
    /\ scopes # <<>>
    /\ \E bodyRaises \in BOOLEAN :
          IF bodyRaises
          THEN /\ session' = Unwind(session, scopes)
               /\ scopes' = <<>>
               /\ pc' = "raised"
               /\ raised' = "RuntimeError"
          ELSE /\ session' = login_exit(session, scopes[Len(scopes)].token)
               /\ scopes' = SubSeq(scopes, 1, Len(scopes) - 1)
               /\ UNCHANGED <<pc, raised>>
    /\ UNCHANGED <<entry, ret, env, credsOK, loginTries, apiCount, loginReqs,
                   othersLogin>>

(***************************************************************************)
(* await_containerrun(containerrun)                                        *)
(***************************************************************************)
\* One pass of the loop up to the sleep: the loop test, the fetch inside a
\* login() scope, and the decision taken on the fetched state.
AwaitFetch ==
    /\ entry = "await_containerrun"
    /\ pc \in {"start", "loop"}
    /\ Len(Fetches) < MaxFetch
    /\ IF ~WithinWait(elapsed, MAX_WAIT)
       THEN /\ pc' = "returned"
            /\ awaited' = containerrun
            /\ UNCHANGED <<raised, session, loginTries, apiCount, loginReqs,
                           events, containerrun, last_state, elapsed>>
       ELSE LET out == login_enter(session, loginTries, env, credsOK)
            IN  /\ loginTries' = loginTries + out.tried
                /\ apiCount' = apiCount + out.api
                /\ loginReqs' = loginReqs + out.req
                /\ session' = login_exit(out.kive, out.token)
                /\ IF out.exc # "none"
                   THEN /\ pc' = "raised"
                        /\ raised' = out.exc
                        /\ UNCHANGED pollVars
                   ELSE \E state \in RunStates, fails \in BOOLEAN :
                          IF fails
                          THEN /\ pc' = "raised"
                               /\ raised' = "KiveServerException"
                               /\ UNCHANGED pollVars
                          ELSE /\ containerrun' =
                                     [id |-> containerrun.id, state |-> state,
                                      serial |-> Len(Fetches) + 1]
                               /\ events' = Append(events, state)
                               /\ elapsed' = INTERVAL * Len(Sleeps)
                               /\ last_state' = state
                               /\ pc' = AfterFetch(state)
                               /\ awaited' = IF AfterFetch(state) = "returned"
                                             THEN containerrun' ELSE awaited
                               /\ UNCHANGED raised
    /\ UNCHANGED <<entry, ret, env, credsOK, scopes, othersPoll>>

\* time.sleep(INTERVAL); continue
AwaitSleep ==
    /\ entry = "await_containerrun"
    /\ pc = "sleep"
    /\ events' = Append(events, "sleep")
    /\ pc' = "loop"
    /\ UNCHANGED <<entry, ret, raised, loginVars, containerrun, last_state,
                   elapsed, awaited, othersPoll>>

(***************************************************************************)
(* URL(value) and str(url)                                                 *)
(***************************************************************************)
URLConstruct ==
    /\ entry = "URL"
    /\ pc = "start"
    /\ LET out == URL(value)
       IN  /\ url' = out.url
           /\ raised' = out.exc
           /\ pc' = IF out.exc = "none" THEN "constructed" ELSE "raised"
    /\ UNCHANGED <<entry, ret, value, text, othersURL>>

\* url_argument(value)
URLArgument ==
    /\ entry = "url_argument"
    /\ pc = "start"
    /\ LET out == url_argument(value)
       IN  /\ url' = out.url
           /\ raised' = out.exc
           /\ pc' = IF out.exc = "none" THEN "constructed" ELSE "raised"
    /\ UNCHANGED <<entry, ret, value, text, othersURL>>

\* str(url)
URLStr ==
    /\ entry \in {"URL", "url_argument"}
    /\ pc = "constructed"
    /\ text' = URL_str(url)
    /\ pc' = "returned"
    /\ UNCHANGED <<entry, ret, raised, value, url, othersURL>>

(***************************************************************************)
(* fetch_paginated_results(query), one step of the generator at a time     *)
(***************************************************************************)
\* The generator ends: the login() scope it holds is left.
\* The search runs on its own, or as the generator main iterates over.
\* The generator is resumed only when the loop body of main has run for
\* the element yielded before.
Searching(at) ==
    \/ entry = "fetch_paginated_results" /\ pc = at
    \/ /\ entry = "findruns.main"
       /\ pc = (IF at = "start" THEN "open" ELSE at)
       /\ RunsWritten(stdout) = Len(yielded)

\* The generator ends: for main, the for loop is left (StopIteration) or
\* the exception propagates out of main.
PageLeave(newpc, exc) ==
    /\ pc' = IF entry = "findruns.main" /\ newpc = "returned"
             THEN "exhausted" ELSE newpc
    /\ raised' = exc
    /\ session' = login_exit(session, scopes[Len(scopes)].token)
    /\ scopes' = SubSeq(scopes, 1, Len(scopes) - 1)

\* An exception inside the try: logged and the loop left, or propagated.
PageFail(exc, page) ==
    IF exc \in Caught
    THEN /\ logged' = Append(logged, [err |-> exc, page |-> page])
         /\ PageLeave("returned", "none")
    ELSE /\ logged' = logged
         /\ PageLeave("raised", exc)

\* First next(): `with login() as kive:` is entered.
PageOpen ==
    /\ Searching("start")
    /\ LET out == login_enter(session, loginTries, env, credsOK)
       IN  /\ loginTries' = loginTries + out.tried
           /\ apiCount' = apiCount + out.api
           /\ loginReqs' = loginReqs + out.req
           /\ IF out.exc = "none"
              THEN /\ session' = out.kive
                   /\ scopes' = Append(scopes, [token |-> out.token,
                                                kive |-> out.kive])
                   /\ pc' = "fetch"
                   /\ UNCHANGED raised
              ELSE /\ pc' = "raised"
                   /\ raised' = out.exc
                   /\ UNCHANGED <<session, scopes>>
    /\ UNCHANGED <<entry, ret, env, credsOK, pageVars, othersPage>>

\* The first page by query, a later page by its link; then data['results'].
PageFetch ==
    /\ Searching("fetch")
    /\ \E a \in (IF Len(served) < MaxPages THEN Answers(kind)
                ELSE {Endless}) :
          /\ served' = IF Len(served) < MaxPages THEN Append(served, a)
                        ELSE served
          /\ IF a.exc # "none"
             THEN /\ PageFail(a.exc, Len(served) + 1)
                  /\ UNCHANGED <<data, idx>>
             ELSE IF ~a.page.hasResults
             THEN /\ PageFail("KeyError", Len(served) + 1)
                  /\ data' = a.page
                  /\ UNCHANGED idx
             ELSE /\ data' = a.page
                  /\ idx' = 1
                  /\ pc' = "iterate"
                  /\ UNCHANGED <<raised, session, scopes, logged>>
    /\ UNCHANGED <<entry, ret, env, credsOK, loginTries, apiCount, loginReqs,
                   kind, nexturl, yielded, othersPage>>

\* for raw in data['results']: yield from_json(raw)
PageYield ==
    /\ Searching("iterate")
    /\ idx <= Len(data.results)
    /\ ~page_done(idx, data)
    /\ LET conv == from_json(kind, data.results[idx])
       IN  IF conv.exc = "none"
           THEN /\ yielded' = Append(yielded, conv.val)
                /\ idx' = idx + 1
                /\ UNCHANGED <<pc, raised, session, scopes, logged>>
           ELSE /\ PageFail(conv.exc, Len(served))
                /\ UNCHANGED <<yielded, idx>>
    /\ UNCHANGED <<entry, ret, env, credsOK, loginTries, apiCount, loginReqs,
                   kind, served, data, nexturl, othersPage>>

\* url = data.get('next'); if not url: break
PageNext ==
    /\ Searching("iterate")
    /\ page_done(idx, data)
    /\ nexturl' = data.next
    /\ IF ~follows(data.next)
       THEN PageLeave("returned", "none")
       ELSE /\ pc' = "fetch"
            /\ UNCHANGED <<raised, session, scopes>>
    /\ UNCHANGED <<entry, ret, env, credsOK, loginTries, apiCount, loginReqs,
                   kind, served, data, idx, yielded, logged, othersPage>>

(***************************************************************************)
(* findruns.main(argv)                                                     *)
(***************************************************************************)
\* parse_cli, build_search_query, fetch_paginated_results(query) (which
\* makes the generator and runs none of it), `if is_json: write("[")`.
FindrunsBegin ==
    /\ entry = "findruns.main"
    /\ pc = "start"
    /\ LET args == findruns_parse(fn_arg)
       IN  /\ fn_result' = Return(findruns_build_search_query(args))
           /\ stdout' = IF args.json THEN <<[write |-> "["]>> ELSE <<>>
    /\ pc' = "open"
    /\ UNCHANGED <<entry, ret, raised, fn_arg, argv, stderr, invoked,
                   handler_rc, loginVars, pollVars, urlVars, pageVars,
                   dsVars, collVars, runVars>>

\* The body of the for loop, for the run the generator has just yielded.
FindrunsWrite ==
    /\ entry = "findruns.main"
    /\ pc = "iterate"
    /\ RunsWritten(stdout) < Len(yielded)
    /\ stdout' = stdout \o findruns_write(findruns_parse(fn_arg).json,
                                          RunsWritten(stdout),
                                          yielded[Len(yielded)])
    /\ UNCHANGED <<entry, pc, ret, raised, fnVars, argv, stderr, invoked,
                   handler_rc, loginVars, pollVars, urlVars, pageVars,
                   dsVars, collVars, runVars>>

\* After the loop: `if is_json: write("]")`, flush, return 0.
FindrunsEnd ==
    /\ entry = "findruns.main"
    /\ pc = "exhausted"
    /\ stdout' = IF findruns_parse(fn_arg).json
                 THEN Append(stdout, [write |-> "]"]) ELSE stdout
    /\ ret' = 0
    /\ pc' = "returned"
    /\ UNCHANGED <<entry, raised, fnVars, argv, stderr, invoked,
                   handler_rc, loginVars, pollVars, urlVars, pageVars,
                   dsVars, collVars, runVars>>

(***************************************************************************)
(* Dataset.update()                                                        *)
(***************************************************************************)
DatasetUpdate ==
    /\ entry = "Dataset.update"
    /\ pc = "start"
    /\ LET out == update(self, found)
       IN  /\ updated' = out.val
           /\ raised' = out.exc
           /\ pc' = IF out.exc = "none" THEN "returned" ELSE "raised"
    /\ UNCHANGED <<entry, ret, self, found, othersDs>>

(***************************************************************************)
(* collect_run_files(containerrun, filefilter), one step of the generator  *)
(***************************************************************************)
\* First next(): `with login():`, then the run's dataset list is fetched.
CollectOpen ==
    /\ entry = "collect_run_files"
    /\ pc = "start"
    /\ LET out == login_enter(session, loginTries, env, credsOK)
       IN  /\ loginTries' = loginTries + out.tried
           /\ apiCount' = apiCount + out.api
           /\ loginReqs' = loginReqs + out.req
           /\ IF out.exc = "none"
              THEN /\ session' = out.kive
                   /\ scopes' = Append(scopes, [token |-> out.token,
                                                kive |-> out.kive])
                   /\ pc' = "iterate"
                   /\ UNCHANGED raised
              ELSE /\ pc' = "raised"
                   /\ raised' = out.exc
                   /\ UNCHANGED <<session, scopes>>
    /\ UNCHANGED <<entry, ret, env, credsOK, found, collVars, othersColl>>

\* One entry of the list: skipped, yielded (itself or its alternative), or
\* the generator raises.
CollectStep ==
    /\ entry = "collect_run_files"
    /\ pc = "iterate"
    /\ ci <= Len(run_datasets)
    /\ LET out == collect_one(filefilter, run_datasets[ci], found)
       IN  /\ ci' = ci + 1
           /\ collected' = collected \o out.yields
           /\ IF out.exc = "none"
              THEN UNCHANGED <<pc, raised, session, scopes>>
              ELSE PageLeave("raised", out.exc)
    /\ UNCHANGED <<entry, ret, env, credsOK, loginTries, apiCount, loginReqs,
                   found, run_datasets, filefilter, outdir, othersColl>>

\* The list is exhausted: the generator ends.
CollectEnd ==
    /\ entry = "collect_run_files"
    /\ pc = "iterate"
    /\ ci > Len(run_datasets)
    /\ PageLeave("returned", "none")
    /\ UNCHANGED <<entry, ret, env, credsOK, loginTries, apiCount, loginReqs,
                   found, collVars, othersColl>>

(***************************************************************************)
(* download.main_parsed(kive, output, run_id, nowait), called by main      *)
(* inside its login scope; fn_arg.nowait is the flag                       *)
(***************************************************************************)
\* containerrun = find_run(kive, run_id), then main_with_run: the poller
\* unless nowait.
DownloadFindRun ==
    /\ entry = "download.main_parsed"
    /\ pc = "start"
    /\ IF main_parsed_call(fn_arg.call) # "none"
       THEN /\ pc' = "raised"
            /\ raised' = main_parsed_call(fn_arg.call)
            /\ UNCHANGED invoked
       ELSE /\ invoked' = Append(invoked, "find_run")
            /\ \E fails \in BOOLEAN :
                  IF fails
                  THEN /\ pc' = "raised"
                       /\ raised' = "UserError"
                  ELSE /\ find_run_call(<<session, RunIdVal>>) = "none"
                       /\ pc' = main_with_run(fn_arg.nowait)
                       /\ UNCHANGED raised
    /\ UNCHANGED <<entry, ret, loginVars, pollVars, urlVars, pageVars, dsVars,
                   collVars, runVars, argv, stdout, stderr, handler_rc,
                   fnVars>>

\* await_containerrun(session, containerrun) of download.py: one fetch.
DownloadAwaitFetch ==
    /\ entry = "download.main_parsed"
    /\ pc = "loop"
    /\ Len(Fetches) < MaxFetch
    /\ invoked' = IF Fetches = <<>> THEN Append(invoked, "await_containerrun")
                  ELSE invoked
    /\ IF ~WithinWait(elapsed, MAX_WAIT)
       THEN /\ pc' = "after_wait"
            /\ awaited' = containerrun
            /\ UNCHANGED <<raised, events, containerrun, last_state, elapsed>>
       ELSE \E state \in RunStates, fails \in BOOLEAN :
              IF fails
              THEN /\ pc' = "raised"
                   /\ raised' = "KiveServerException"
                   /\ UNCHANGED pollVars
              ELSE /\ containerrun' =
                         [id |-> containerrun.id, state |-> state,
                          serial |-> Len(Fetches) + 1]
                   /\ events' = Append(events, state)
                   /\ elapsed' = INTERVAL * Len(Sleeps)
                   /\ last_state' = state
                   /\ pc' = IF AfterFetch(state) = "returned"
                            THEN "after_wait" ELSE "sleep"
                   /\ awaited' = IF AfterFetch(state) = "returned"
                                 THEN containerrun' ELSE awaited
                   /\ UNCHANGED raised
    /\ UNCHANGED <<entry, ret, loginVars, urlVars, pageVars, dsVars, collVars,
                   runVars, argv, stdout, stderr, handler_rc, fnVars>>

\* time.sleep(INTERVAL); continue
DownloadAwaitSleep ==
    /\ entry = "download.main_parsed"
    /\ pc = "sleep"
    /\ events' = Append(events, "sleep")
    /\ pc' = "loop"
    /\ UNCHANGED <<entry, ret, raised, loginVars, containerrun, last_state,
                   elapsed, awaited, urlVars, pageVars, dsVars, collVars,
                   runVars, mainVars, fnVars>>

(***************************************************************************)
(* download.main_after_wait(kive, output, containerrun)                    *)
(***************************************************************************)
\* datasets = list(collect_run_outputs(kive, containerrun));
\* download_results(datasets, output); return 0
DownloadAfterWait ==
    /\ \/ entry = "download.main_after_wait" /\ pc = "start"
       \/ entry = "download.main_parsed" /\ pc = "after_wait"
    /\ invoked' = IF entry = "download.main_parsed"
                  THEN Append(invoked, "main_after_wait") ELSE invoked
    /\ LET out == collect_run_outputs(session, run_datasets)
       IN  IF out.exc # "none"
           THEN /\ pc' = "raised"
                /\ raised' = out.exc
                /\ UNCHANGED <<ret, collected, outdir>>
           ELSE /\ collected' = out.seq
                /\ outdir' = download_results(out.seq)
                /\ ret' = 0
                /\ pc' = "returned"
                /\ UNCHANGED raised
    /\ UNCHANGED <<entry, loginVars, found, run_datasets, filefilter, ci,
                   pollVars, urlVars, pageVars, self, updated, runVars, argv,
                   stdout, stderr, handler_rc, fnVars>>

(***************************************************************************)
(* An id wrapper is constructed: RunId(v), DatasetId(v), ...               *)
(***************************************************************************)
IdConstruct ==
    /\ entry \in IdWrappers
    /\ pc = "start"
    /\ LET out == construct(entry, fn_arg)
       IN  /\ fn_result' = out
           /\ raised' = out.exc
           /\ pc' = IF out.exc = "none" THEN "returned" ELSE "raised"
    /\ UNCHANGED <<entry, ret, fn_arg, othersFn>>

(***************************************************************************)
(* KiveRun.from_json(raw), then KiveRun.raw of the record                  *)
(***************************************************************************)
RunFromJson ==
    /\ entry = "KiveRun.from_json"
    /\ pc = "start"
    /\ LET out == KiveRun_from_json(fn_arg)
       IN  /\ fn_result' = out
           /\ raised' = out.exc
           /\ pc' = IF out.exc = "none" THEN "returned" ELSE "raised"
    /\ UNCHANGED <<entry, ret, fn_arg, othersFn>>

RunRaw ==
    /\ entry = "KiveRun.from_json"
    /\ pc = "returned"
    /\ fn_result' = [exc |-> "none", val |-> fn_result.val,
                     raw |-> KiveRun_raw(fn_result.val)]
    /\ pc' = "dumped"
    /\ UNCHANGED <<entry, ret, raised, fn_arg, othersFn>>

(***************************************************************************)
(* stop.main(argv) for the run fn_arg of the server                        *)
(***************************************************************************)
StopMain ==
    /\ entry = "stop.main"
    /\ pc = "start"
    /\ LET out == login_enter(session, loginTries, env, credsOK)
           body == stop_main(fn_arg.id, fn_arg)
       IN  /\ loginTries' = loginTries + out.tried
           /\ apiCount' = apiCount + out.api
           /\ loginReqs' = loginReqs + out.req
           /\ session' = IF out.exc = "none"
                         THEN login_exit(out.kive, out.token) ELSE session
           /\ raised' = IF out.exc # "none" THEN out.exc ELSE body.exc
           /\ effects' = IF out.exc # "none" THEN effects ELSE body.posts
           /\ ret' = IF out.exc # "none" THEN ret ELSE body.ret
           /\ pc' = IF raised' = "none" THEN "returned" ELSE "raised"
    /\ UNCHANGED <<entry, env, credsOK, scopes, pollVars, urlVars, pageVars,
                   dsVars, collVars, inputs, input_appargs, dataset_list,
                   server, mainVars, fnVars>>

(***************************************************************************)
(* check_rerun.main_typed(run_id, is_json, verbose_output) for the run     *)
(* whose dataset list is run_datasets                                      *)
(***************************************************************************)
CheckRerun ==
    /\ entry = "check_rerun.main_typed"
    /\ pc = "start"
    /\ LET out == login_enter(session, loginTries, env, credsOK)
           body == check_rerun_main_typed(RunIdVal, run_datasets, found)
       IN  /\ loginTries' = loginTries + out.tried
           /\ apiCount' = apiCount + out.api
           /\ loginReqs' = loginReqs + out.req
           /\ session' = IF out.exc = "none"
                         THEN login_exit(out.kive, out.token) ELSE session
           /\ raised' = IF out.exc # "none" THEN out.exc ELSE body.exc
           /\ ret' = IF out.exc # "none" THEN ret ELSE body.ret
           /\ pc' = IF raised' = "none" THEN "returned" ELSE "raised"
    /\ UNCHANGED <<entry, env, credsOK, scopes, pollVars, urlVars, pageVars,
                   dsVars, collVars, runVars, mainVars, fnVars>>

(***************************************************************************)
(* build_search_query of the module fn_arg.module, called on its own       *)
(***************************************************************************)
BuildSearchQuery ==
    /\ entry = "build_search_query"
    /\ pc = "start"
    /\ fn_result' = Return(module_build_search_query(
                               fn_arg.module, DEFAULT_PAGESIZE, fn_arg.vals))
    /\ pc' = "returned"
    /\ UNCHANGED <<entry, ret, raised, fn_arg, othersFn>>

(***************************************************************************)
(* runkive.main(argv)                                                      *)
(***************************************************************************)
\* Environment checks, KiveAPI(server), kive.login.
RunLogin ==
    /\ entry = "runkive.main"
    /\ pc = "start"
    /\ LET out == runkive_login(env, credsOK)
       IN  /\ apiCount' = apiCount + out.api
           /\ loginReqs' = loginReqs + out.req
           /\ raised' = out.exc
           /\ pc' = IF out.exc = "none" THEN "prepare" ELSE "raised"
    /\ UNCHANGED <<entry, ret, env, credsOK, pollVars, runVars, othersRun>>

\* From the output directory to the count of the inputs: the app and its
\* arguments are fetched, the inputs counted.
RunCount ==
    /\ entry = "runkive.main"
    /\ pc = "prepare"
    /\ \E fails \in BOOLEAN :
          IF fails
          THEN /\ pc' = "raised"
               /\ raised' = "KiveServerException"
          ELSE IF count_inputs(inputs, input_appargs) # "none"
          THEN /\ pc' = "raised"
               /\ raised' = count_inputs(inputs, input_appargs)
          ELSE /\ pc' = "resolve"
               /\ UNCHANGED raised
    /\ UNCHANGED <<entry, ret, env, credsOK, apiCount, loginReqs, pollVars,
                   runVars, othersRun>>

\* From get_input_datasets to the submission of the run: the script and
\* each input is found on the server or uploaded, the datasets are paired
\* with the arguments, the batch (if one is asked for) is found or
\* created, the run is posted.  A request may fail on the way.
RunSubmit ==
    /\ entry = "runkive.main"
    /\ pc = "resolve"
    /\ \E k \in 0..(1 + inputs), batch \in {"none", "found", "created"},
          fails \in BOOLEAN :
          IF fails
          THEN /\ pc' = "raised"
               /\ raised' = "KiveServerException"
               /\ effects' = Repeat("add_dataset", k)
               /\ UNCHANGED <<dataset_list, containerrun>>
          ELSE /\ dataset_list' = Zip(input_appargs, 1 + inputs)
               /\ effects' = Repeat("add_dataset", k)
                     \o (IF batch = "created" THEN <<"batches.post">>
                         ELSE <<>>)
                     \o <<"containerruns.post">>
               /\ containerrun' = [id |-> RunIdVal, state |-> "N",
                                   serial |-> 0]
               /\ pc' = "loop"
               /\ UNCHANGED raised
    /\ UNCHANGED <<entry, ret, env, credsOK, apiCount, loginReqs, events,
                   last_state, elapsed, awaited, inputs, input_appargs,
                   server, othersRun>>

\* A batch is attached by name, and then once more with the same name and
\* groups against the same server.
BatchAttach ==
    /\ entry \in BatchEntries
    /\ pc \in {"start", "again"}
    /\ LET out == attach_batch(entry, server.batches, fn_arg)
       IN  /\ fn_result' = [exc |-> out.exc, val |-> out.val]
           /\ server' = [server EXCEPT !.batches = out.store]
           /\ effects' = effects \o out.requests
           /\ raised' = out.exc
           /\ pc' = IF out.exc # "none" THEN "raised"
                    ELSE IF pc = "start" THEN "again" ELSE "returned"
    /\ UNCHANGED <<entry, ret, fn_arg, loginVars, pollVars, inputs,
                   input_appargs, dataset_list, urlVars, pageVars, dsVars,
                   collVars, mainVars>>

\* upload_or_retrieve_dataset called on one argument.
UploadOrRetrieve ==
    /\ entry = "upload_or_retrieve_dataset"
    /\ pc = "start"
    /\ \E added \in {"ok", "KiveMalformedDataException",
                      "KiveServerException"} :
          LET out == upload_or_retrieve_dataset(server.datasets, fn_arg,
                                                added)
          IN  /\ fn_result' = [exc |-> out.exc, val |-> out.val]
              /\ server' = [server EXCEPT !.datasets = out.store]
              /\ effects' = effects \o out.requests
              /\ raised' = out.exc
              /\ pc' = IF out.exc = "none" THEN "returned" ELSE "raised"
    /\ UNCHANGED <<entry, ret, fn_arg, loginVars, pollVars, inputs,
                   input_appargs, dataset_list, urlVars, pageVars, dsVars,
                   collVars, mainVars>>

\* await_containerrun(session, containerrun) of runkive.py: one pass of
\* the loop up to the sleep.
RunAwaitFetch ==
    /\ entry = "runkive.main"
    /\ pc = "loop"
    /\ Len(Fetches) < MaxFetch
    /\ IF ~WithinWait(elapsed, MAX_WAIT)
       THEN /\ pc' = "finish"
            /\ awaited' = containerrun
            /\ UNCHANGED <<raised, events, containerrun, last_state, elapsed>>
       ELSE \E state \in RunStates, fails \in BOOLEAN :
              IF fails
              THEN /\ pc' = "raised"
                   /\ raised' = "KiveServerException"
                   /\ UNCHANGED pollVars
              ELSE /\ containerrun' =
                         [id |-> containerrun.id, state |-> state,
                          serial |-> Len(Fetches) + 1]
                   /\ events' = Append(events, state)
                   /\ elapsed' = INTERVAL * Len(Sleeps)
                   /\ last_state' = state
                   /\ pc' = IF AfterFetch(state) = "returned"
                            THEN "finish" ELSE "sleep"
                   /\ awaited' = IF AfterFetch(state) = "returned"
                                 THEN containerrun' ELSE awaited
                   /\ UNCHANGED raised
    /\ UNCHANGED <<entry, ret, env, credsOK, apiCount, loginReqs, runVars,
                   othersRun>>

RunAwaitSleep ==
    /\ entry = "runkive.main"
    /\ pc = "sleep"
    /\ events' = Append(events, "sleep")
    /\ pc' = "loop"
    /\ UNCHANGED <<entry, ret, raised, env, credsOK, apiCount, loginReqs,
                   containerrun, last_state, elapsed, awaited, runVars,
                   othersRun>>

\* download_results, the logs, and the exit status.
RunFinish ==
    /\ entry = "runkive.main"
    /\ pc = "finish"
    /\ \E fails \in BOOLEAN :
          IF fails
          THEN /\ pc' = "raised"
               /\ raised' = "KiveServerException"
               /\ UNCHANGED ret
          ELSE /\ ret' = exit_status(awaited.state)
               /\ pc' = "returned"
               /\ UNCHANGED raised
    /\ UNCHANGED <<entry, env, credsOK, apiCount, loginReqs, pollVars,
                   runVars, othersRun>>

(***************************************************************************)
(* __main__.main(argv)                                                     *)
(***************************************************************************)
\* main up to the point where it returns or calls the handler.
MainDispatch ==
    /\ entry = "__main__.main"
    /\ pc = "start"
    /\ LET d == dispatch(argv)
       IN  /\ stdout' = d.out
           /\ stderr' = d.err
           /\ IF d.call = NoCall
              THEN /\ ret' = d.rc
                   /\ pc' = "returned"
                   /\ UNCHANGED invoked
              ELSE /\ invoked' = Append(invoked, d.call)
                   /\ pc' = "handler"
                   /\ UNCHANGED ret
    /\ UNCHANGED <<entry, raised, argv, handler_rc, othersMain>>

\* The handler returns a status, which main returns, or raises.
MainHandlerReturn ==
    /\ entry = "__main__.main"
    /\ pc = "handler"
    /\ \E rc \in {0, 1, 2} :
          IF rc = 2
          THEN /\ pc' = "raised"
               /\ raised' = "UserError"
               /\ UNCHANGED <<ret, handler_rc>>
          ELSE /\ handler_rc' = rc
               /\ ret' = rc
               /\ pc' = "returned"
               /\ UNCHANGED raised
    /\ UNCHANGED <<entry, argv, stdout, stderr, invoked, othersMain>>

Next ==
    \/ LoginEnter
    \/ LoginExit
    \/ AwaitFetch
    \/ AwaitSleep
    \/ URLConstruct
    \/ URLArgument
    \/ URLStr
    \/ PageOpen
    \/ PageFetch
    \/ PageYield
    \/ PageNext
    \/ DatasetUpdate
    \/ CollectOpen
    \/ CollectStep
    \/ CollectEnd
    \/ RunLogin
    \/ RunCount
    \/ RunSubmit
    \/ UploadOrRetrieve
    \/ BatchAttach
    \/ RunAwaitFetch
    \/ RunAwaitSleep
    \/ RunFinish
    \/ MainDispatch
    \/ MainHandlerReturn
    \/ DownloadAfterWait
    \/ DownloadFindRun
    \/ DownloadAwaitFetch
    \/ DownloadAwaitSleep
    \/ IdConstruct
    \/ RunFromJson
    \/ RunRaw
    \/ StopMain
    \/ CheckRerun
    \/ BuildSearchQuery
    \/ FindrunsBegin
    \/ FindrunsWrite
    \/ FindrunsEnd

Spec == Init /\ [][Next]_vars

(***************************************************************************)
(* The search on its own, with a consumer that iterates to the end: the    *)
(* generator is resumed again and again by the for loop of main, and each  *)
(* step of it (a request, a conversion, the test of the link) completes,   *)
(* so a step that can be taken is taken.  How many elements a page holds   *)
(* does not enter into following the links: the server of this             *)
(* specification serves pages of at most one element.                      *)
(***************************************************************************)
ShortPage == Len(data.results) <= 1

InitSearch ==
    /\ InitOf({"fetch_paginated_results"})
    /\ env = DefaultEnv

NextSearch ==
    \/ PageOpen
    \/ PageFetch /\ ShortPage'
    \/ PageYield
    \/ PageNext

SearchSpec == InitSearch /\ [][NextSearch]_vars /\ WF_vars(NextSearch)

(***************************************************************************)
(* Properties                                                              *)
(***************************************************************************)
Last(q) == q[Len(q)]

\* C1: await_containerrun fetches up to and including the first state that
\* is not active, sleeps exactly once after every fetch of an active state
\* and never after the terminal one, fetches nothing afterwards, and
\* returns the run object of that last fetch.
C1_PollerStopsAtFirstTerminal ==
    entry = "await_containerrun" =>
      /\ \A i \in 1..Len(events) :
            /\ events[i] = "sleep" =>
                  i > 1 /\ events[i - 1] \in ACTIVE_STATES
            /\ events[i] # "sleep" =>
                  /\ i > 1 => events[i - 1] = "sleep"
                  /\ events[i] \notin ACTIVE_STATES => i = Len(events)
                  /\ (events[i] \in ACTIVE_STATES /\ i < Len(events)) =>
                        events[i + 1] = "sleep"
      /\ (events # <<>> /\ Last(events) \notin ACTIVE_STATES \cup {"sleep"})
            => pc = "returned"
      /\ pc = "returned" =>
            /\ events # <<>>
            /\ Last(events) \in RunStates \ ACTIVE_STATES
            /\ awaited = [id |-> RunIdVal, state |-> Last(events),
                          serial |-> Len(Fetches)]
      /\ pc # "returned" => awaited = NoRun

C1_Witness ==
    /\ entry = "await_containerrun"
    /\ pc = "returned"
    /\ events = <<"N", "sleep", "R", "sleep", "F">>

RECURSIVE Flatten(_)
Flatten(answers) ==
    IF answers = <<>> THEN <<>>
    ELSE Flatten(SubSeq(answers, 1, Len(answers) - 1))
            \o Last(answers).page.results

ConvertAll(k, raws) == [n \in 1..Len(raws) |-> from_json(k, raws[n]).val]

\* A JSON object the server may legitimately send: every key present.
WellFormed(raw) == raw.missing = {}

ServedWithoutFailure ==
    \A i \in 1..Len(served) :
        /\ served[i].exc = "none"
        /\ served[i].page.hasResults
        /\ \A j \in 1..Len(served[i].page.results) :
              WellFormed(served[i].page.results[j])

Finished == pc \in {"returned", "raised"}

\* C2: for every chain of pages served without failure the search yields
\* exactly the concatenation of the pages' results, converted, in order,
\* and stops after the first page without a "next" link.
C2_YieldsConcatenation ==
    (entry = "fetch_paginated_results" /\ served # <<>>
        /\ ServedWithoutFailure /\ Finished) =>
      /\ raised = "none"
      /\ Len(yielded) = Len(Flatten(served))
      /\ \A n \in 1..Len(yielded) : yielded[n].id = Flatten(served)[n].id
      /\ Last(served).page.next = ""
      /\ \A i \in 1..(Len(served) - 1) : served[i].page.next # ""

\* The answer to a page request is a failure of that page: the client
\* raised, or the page lacks "results", or one of its elements lacks a key
\* (and the elements before it converted).
FirstLacking(results) ==
    IF \E j \in 1..Len(results) : ~WellFormed(results[j])
    THEN CHOOSE j \in 1..Len(results) :
            /\ ~WellFormed(results[j])
            /\ \A i \in 1..(j - 1) : WellFormed(results[i])
    ELSE 0

PageFailure(k, a) ==
    \/ a.exc \in {"KiveServerException", "KiveClientException"}
    \/ a.exc = "none" /\ ~a.page.hasResults
    \/ /\ a.exc = "none"
       /\ FirstLacking(a.page.results) > 0
       /\ \A i \in 1..(FirstLacking(a.page.results) - 1) :
             from_json(k, a.page.results[i]).exc = "none"

FailedLater ==
    /\ entry = "fetch_paginated_results"
    /\ Finished
    /\ Len(served) > 1
    /\ PageFailure(kind, Last(served))

Before(q) == SubSeq(q, 1, Len(q) - 1)

FirstAvailable(this, answer) ==
    IF \E j \in 1..Len(answer) : ~answer[j].is_purged
    THEN answer[CHOOSE j \in 1..Len(answer) :
                   /\ ~answer[j].is_purged
                   /\ \A i \in 1..(j - 1) : answer[i].is_purged]
    ELSE NoDataset

SameChecksum(this, answer) ==
    \A j \in 1..Len(answer) : answer[j].md5checksum = this.md5checksum

\* C4: Dataset.update on a purged dataset returns the first dataset, in
\* search order, that is not purged among the datasets reported with the
\* same checksum, and None when there is none.
C4_UpdateReturnsFirstAvailable ==
    (entry = "Dataset.update" /\ pc # "start" /\ self.is_purged
        /\ SameChecksum(self, found)) =>
      /\ raised = "none"
      /\ updated = FirstAvailable(self, found)

\* C5: collect_run_files fails with a UserError as soon as a matching
\* dataset is purged and has no alternative; when an alternative exists it
\* is yielded in place of the purged dataset and the operation continues.
C5_PurgedFailsOrSubstitutes ==
    (entry = "collect_run_files" /\ ci > 1
        /\ SameChecksum(Dataset_from_json(run_datasets[ci - 1].at).val, found)
        /\ matches(filefilter, DatasetInfo_coerce(run_datasets[ci - 1]).val)
        /\ run_datasets[ci - 1].at.is_purged)
      =>
      LET alt == FirstAvailable(Dataset_from_json(run_datasets[ci - 1].at).val,
                                found)
      IN  IF alt = NoDataset
          THEN pc = "raised" /\ raised = "UserError"
          ELSE /\ raised = "none"
               /\ collected # <<>>
               /\ Last(collected) = alt


\* C6: runkive.main returns 0 if and only if the run the poller returned is
\* in state C; for F, X and any unknown state it returns 1 as a normal
\* return value: the only exceptions after the poll are transport errors.
C6_ExitStatusReflectsState ==
    entry = "runkive.main" =>
      /\ pc = "returned" =>
            /\ awaited # NoRun
            /\ ret \in {0, 1}
            /\ ret = 0 <=> awaited.state = "C"
      /\ pc # "returned" => ret = -1
      /\ (pc = "raised" /\ awaited # NoRun) => raised = "KiveServerException"

C6_Witness ==
    /\ entry = "runkive.main"
    /\ pc = "returned"
    /\ awaited.state = "U"
    /\ ret = 1

\* C7: main(argv) returns 1 with a usage error on standard error when argv
\* is empty or names no program, returns 0 with the help on standard
\* output for -h and --help, and calls no handler in these cases; for a
\* name in PROGRAMS it calls exactly one handler with argv[1:] and returns
\* the handler's result.
C7_Dispatch ==
    (entry = "__main__.main" /\ pc # "start") =>
      IF argv = <<>>
      THEN /\ pc = "returned" /\ ret = 1 /\ invoked = <<>>
           /\ stderr = "PROGRAM_MISSING_MESSAGE" /\ stdout = ""
      ELSE IF argv[1] \in {"-h", "--help"}
      THEN /\ pc = "returned" /\ ret = 0 /\ invoked = <<>>
           /\ stdout = "HELP_MESSAGE" /\ stderr = ""
      ELSE IF \A k \in 1..Len(PROGRAMS) : argv[1] # PROGRAMS[k]
      THEN /\ pc = "returned" /\ ret = 1 /\ invoked = <<>>
           /\ stderr = "PROGRAM_ERROR_MESSAGE" /\ stdout = ""
      ELSE /\ Len(invoked) = 1
           /\ invoked[1].handler # "RuntimeError"
           /\ invoked[1].arguments = SubSeq(argv, 2, Len(argv))
           /\ stdout = "" /\ stderr = ""
           /\ pc = "returned" => ret = handler_rc /\ handler_rc # -1
           /\ pc # "returned" => ret = -1

C7_Witness ==
    /\ entry = "__main__.main"
    /\ pc = "returned"
    /\ argv = <<"download", "frobnicate">>
    /\ invoked = <<[handler |-> "kivedownload", arguments |-> <<"frobnicate">>]>>
    /\ ret = 1


\* A string has both a scheme and a network location: letters, digits,
\* "+", "-", "." starting with a letter, up to the first ":", then "//",
\* then at least one character other than "/", "?", "#".
HasSchemeAndNetloc(s) ==
    \E i \in 2..Len(s) :
        /\ s[i] = ":"
        /\ \A k \in 1..(i - 1) : s[k] \in scheme_chars
        /\ s[1] \in ascii_alpha
        /\ Len(s) >= i + 3
        /\ s[i + 1] = "/"
        /\ s[i + 2] = "/"
        /\ s[i + 3] \notin {"/", "?", "#"}

\* C8: URL construction succeeds exactly for the strings that have both a
\* scheme and a network location, and then str(url) is the string in angle
\* brackets; for every other string it fails with a UserError and no URL
\* value exists.
C8_URLValidity ==
    (entry \in {"URL", "url_argument"} /\ pc # "start") =>
      IF HasSchemeAndNetloc(value)
      THEN /\ raised = "none"
           /\ url = [ok |-> TRUE, value |-> value]
           /\ pc = "returned" =>
                 /\ Len(text) = Len(value) + 2
                 /\ text[1] = "<"
                 /\ text[Len(text)] = ">"
                 /\ \A k \in 1..Len(value) : text[k + 1] = value[k]
      ELSE /\ pc = "raised"
           /\ raised = "UserError"
           /\ url = NoURL

C8_Witness ==
    /\ entry = "URL"
    /\ pc = "returned"
    /\ value = <<"a", ":", "/", "/", "1">>
    /\ text = <<"<", "a", ":", "/", "/", "1", ">">>

\* C9 as stated: login_try is performed at most once in a process.
C9_AuthenticatedOnce ==
    entry = "login" => loginTries <= 1

\* C9, amended: authentication is performed once per outermost login()
\* scope.  A scope entered while another is open does not authenticate and
\* yields the cached session; a scope entered when none is open
\* authenticates (login_try) anew, since the scope that cached the session
\* removed it on exit.
C9_OncePerOutermostScope ==
    [][entry = "login" =>
         /\ scopes # <<>> =>
               /\ loginTries' = loginTries
               /\ Len(scopes') > Len(scopes) =>
                     /\ session' = session
                     /\ Last(scopes').kive = session
         /\ (scopes = <<>> /\ scopes' # <<>>) =>
               /\ loginTries' = loginTries + 1
               /\ session = 0
               /\ session' # 0]_vars

C9_Witness ==
    /\ entry = "login"
    /\ Len(scopes) = 2
    /\ loginTries = 2
    /\ scopes[2].kive = scopes[1].kive
    /\ session = scopes[1].kive

EnvMissing == ~env.server.set \/ ~env.user \/ ~env.password

\* C10: if one of the three environment variables is unset, login fails
\* with a UserError before a KiveAPI client is constructed and before any
\* login request is sent, and no session is cached.
C10_MissingEnvFailsFirst ==
    (entry \in UsesLogin /\ EnvMissing) =>
      /\ apiCount = 0
      /\ loginReqs = 0
      /\ session = 0
      /\ scopes = <<>>
      /\ pc # "start" => pc = "raised" /\ raised = "UserError"

C10_Witness ==
    /\ entry = "login"
    /\ env.server.set /\ env.user /\ ~env.password
    /\ pc = "raised"
    /\ raised = "UserError"
    /\ loginTries = 1


OutputsOf(entries) ==
    SelectSeq(entries, LAMBDA d : d.argument_type = "O")

\* C11: with the default filter, download collects and writes a dataset of
\* the run if and only if its argument direction is output: every output
\* dataset, in order, and no input dataset.
C11_DownloadSelectsOutputs ==
    (entry = "download.main_after_wait" /\ pc # "start") =>
      /\ raised = "none"
      /\ outdir.made
      /\ outdir.files = [k \in 1..Len(OutputsOf(run_datasets)) |->
                            OutputsOf(run_datasets)[k].at.id]


HasForeignChecksum(this, answer) ==
    \E j \in 1..Len(answer) : answer[j].md5checksum # this.md5checksum

\* C12: Dataset.update checks every candidate of the checksum search: when
\* the search result holds a candidate whose checksum differs from the
\* dataset's own, the call fails with the error of that check (ValueError)
\* and returns neither a dataset nor None.
C12_ForeignChecksumRejected ==
    (entry = "Dataset.update" /\ pc # "start"
        /\ HasForeignChecksum(self, found)) =>
      /\ pc = "raised"
      /\ raised = "ValueError"
      /\ updated = NoDataset


\* C13: constructing an id wrapper (RunId, DatasetId, BatchId,
\* ContainerAppId) with a negative integer fails, so every wrapper value
\* that exists holds a value >= 0.
C13_IdsNonNegative ==
    (entry \in IdWrappers /\ pc # "start") =>
      IF fn_arg < 0
      THEN pc = "raised" /\ raised = "TypeError"
      ELSE pc = "returned" /\ fn_result.val = fn_arg


\* C14: when more inputs are given than the app declares input arguments,
\* runkive.main fails with a UserError at the count, before any dataset is
\* uploaded, any batch created and the run submitted (before the count it
\* can only fail at the environment, the login or the fetch of the app).
C14_TooManyInputsRejectedEarly ==
    (entry = "runkive.main" /\ inputs > input_appargs) =>
      /\ effects = <<>>
      /\ dataset_list = <<>>
      /\ pc \in {"start", "prepare", "raised"}
      /\ pc = "raised" => raised \in {"UserError", "KiveServerException"}
      /\ (pc = "raised" /\ raised = "KiveServerException") =>
            loginReqs = 1

C14_Witness ==
    /\ entry = "runkive.main"
    /\ inputs = 2
    /\ input_appargs = 1
    /\ credsOK /\ ~EnvMissing
    /\ loginReqs = 1
    /\ pc = "raised"
    /\ raised = "UserError"
    /\ effects = <<>>


\* The datasets the server held when the call began.
StoreBefore == SelectSeq(server.datasets, LAMBDA d : ~d.fresh)

Uploaded == SelectSeq(server.datasets, LAMBDA d : d.fresh)

Reusable(d, arg) ==
    d.md5 = arg.md5 /\ \A g \in ALLOWED_GROUPS : g \in d.groups_allowed

FirstReusable(store, arg) ==
    store[CHOOSE j \in 1..Len(store) :
             /\ Reusable(store[j], arg)
             /\ \A i \in 1..(j - 1) : ~Reusable(store[i], arg)]

BatchesBefore == SelectSeq(server.batches, LAMBDA b : ~b.fresh)

BatchesCreated == SelectSeq(server.batches, LAMBDA b : b.fresh)

\* The server held a batch with the name and the required groups.
BatchPresent ==
    \E j \in 1..Len(BatchesBefore) :
        /\ BatchesBefore[j].name = fn_arg.name
        /\ BatchesBefore[j].groups_allowed = fn_arg.groups_allowed

\* C16: attaching a batch by name creates a batch only when the server
\* holds none with that name and the required groups; otherwise a batch
\* the server holds under that name is reused; and doing it again with
\* the same name and groups never creates a second batch.
C16_BatchCreatedOnlyWhenAbsent ==
    (entry \in BatchEntries /\ pc # "start") =>
      /\ Len(BatchesCreated) <= 1
      /\ Len(effects) = Len(BatchesCreated)
      /\ BatchesCreated # <<>> => ~BatchPresent
      /\ BatchPresent =>
            /\ raised = "none"
            /\ fn_result.val.name = fn_arg.name
            /\ ~fn_result.val.fresh

\* The same for create_batch of runkive.py alone, with "the required
\* groups" read as: the allowed groups include every required group.
CreateBatchReusesOrCreatesOnce ==
    (entry = "create_batch" /\ pc # "start") =>
      LET present == \E j \in 1..Len(BatchesBefore) :
                        /\ BatchesBefore[j].name = fn_arg.name
                        /\ ALLOWED_GROUPS \subseteq
                              BatchesBefore[j].groups_allowed
      IN  /\ raised = "none"
          /\ Len(BatchesCreated) <= 1
          /\ Len(effects) = Len(BatchesCreated)
          /\ BatchesCreated # <<>> <=> ~present
          /\ fn_result.val.name = fn_arg.name
          /\ ALLOWED_GROUPS \subseteq fn_result.val.groups_allowed


\* C17: every KiveRun record has end_time set only in a terminal state:
\* when end_time is not None (is_finished is true) the state is COMPLETE,
\* FAILED or CANCELLED.
C17_EndTimeOnlyInTerminalState ==
    (entry = "KiveRun.from_json" /\ pc \in {"returned", "dumped"}) =>
      (is_finished(fn_result.val) => fn_result.val.state \in {"C", "F", "X"})


\* C18 as stated: for every behaviour of the server the iteration over
\* fetch_paginated_results comes to an end after finitely many requests.
C18_SearchTerminates == <>Finished

\* C18, amended: the iteration comes to an end once the server answers with
\* a page that carries no next link (a request that fails ends it at
\* once); while every page carries a link the search goes on.
C18_EndsAtPageWithoutLink ==
    (pc = "iterate" /\ data.next = "") ~> Finished

C18_Witness ==
    /\ entry = "fetch_paginated_results"
    /\ pc = "returned"
    /\ Len(served) = MaxPages
    /\ \A i \in 1..Len(served) : served[i].exc = "none"
    /\ Last(served).page.next = ""
    /\ logged = <<>>


\* C19: for every run JSON that KiveRun.from_json accepts, KiveRun.raw equals
\* the original JSON on id, state, name, url, app_name, batch_name and
\* dataset_list and on every key the record has no field for; a null
\* batch_name stays null.
C19_RawKeepsJson ==
    (entry = "KiveRun.from_json" /\ pc = "dumped") =>
      /\ DOMAIN fn_result.raw = DOMAIN fn_arg
      /\ \A key \in DOMAIN fn_arg \ {"start_time", "end_time"} :
            fn_result.raw[key] = fn_arg[key]
      /\ fn_arg.batch_name = JNull => fn_result.raw.batch_name = JNull

\* The same with a batch name given: the round trip keeps the JSON.
RawKeepsJsonWithBatchName ==
    (entry = "KiveRun.from_json" /\ pc = "dumped"
        /\ fn_arg.batch_name # JNull) =>
      /\ DOMAIN fn_result.raw = DOMAIN fn_arg
      /\ \A key \in DOMAIN fn_arg \ {"start_time", "end_time"} :
            fn_result.raw[key] = fn_arg[key]


InputAvailable(d, answer) ==
    \/ ~d.at.is_purged
    \/ \E j \in 1..Len(answer) :
          /\ answer[j].md5checksum = d.at.MD5_checksum
          /\ ~answer[j].is_purged

\* C21: check_rerun returns exit code 0 if and only if every input dataset
\* of the run is available (not purged, or with a non-purged alternative
\* of the same checksum), and 1 otherwise.
C21_ExitCodeReflectsAvailability ==
    (entry = "check_rerun.main_typed" /\ pc # "start") =>
      /\ pc = "returned"
      /\ ret = IF \A k \in 1..Len(run_datasets) :
                     run_datasets[k].argument_type = "I" =>
                       InputAvailable(run_datasets[k], found)
               THEN 0 ELSE 1


\* C22: with the default, unbounded timeout the poller returns if and only
\* if some fetch reported a state outside the active set: while every
\* fetched state is active it has not returned, whatever time has elapsed
\* (the timeout branch is not taken), and the fetch that reports a
\* non-active state is its last one: it returns the run of that fetch.
C22_ReturnsIffNonActiveFetched ==
    entry = "await_containerrun" =>
      /\ pc = "returned" <=>
            \E k \in 1..Len(Fetches) : Fetches[k] \notin ACTIVE_STATES
      /\ \A k \in 1..Len(Fetches) :
            Fetches[k] \notin ACTIVE_STATES => k = Len(Fetches)
      /\ pc = "returned" =>
            /\ awaited.state \notin ACTIVE_STATES
            /\ awaited.serial = Len(Fetches)

\* The poller returned at its last allowed fetch, after sleeping between
\* the fetches before it.
C22_Witness ==
    /\ entry = "await_containerrun"
    /\ pc = "returned"
    /\ Len(Fetches) = MaxFetch
    /\ elapsed = INTERVAL * (MaxFetch - 1)
    /\ elapsed > 0
    /\ awaited.state = "C"


\* C23: in download, main_parsed looks the run up first; with nowait the
\* poller is not invoked and collection follows the look-up at once;
\* without nowait nothing is collected or written before the poller has
\* returned; and main_parsed ends with the result of main_with_run,
\* unless the look-up or a fetch of the poller fails.
C23_DownloadWaitsThenCollects ==
    entry = "download.main_parsed" =>
      /\ pc # "start" => invoked # <<>> /\ invoked[1] = "find_run"
      /\ fn_arg.nowait =>
            /\ events = <<>>
            /\ \A k \in 1..Len(invoked) : invoked[k] # "await_containerrun"
            /\ Len(invoked) > 1 => invoked[2] = "main_after_wait"
      /\ (~fn_arg.nowait /\ Len(invoked) > 1) =>
            invoked[2] = "await_containerrun"
      /\ (~fn_arg.nowait /\ (collected # <<>> \/ outdir # NoDir
                               \/ Len(invoked) > 2)) =>
            /\ invoked = <<"find_run", "await_containerrun",
                           "main_after_wait">>
            /\ awaited.state \notin ACTIVE_STATES
            /\ awaited.serial = Len(Fetches)
      /\ pc = "raised" =>
            \/ raised = "UserError" /\ invoked = <<"find_run">>
            \/ /\ raised = "KiveServerException"
               /\ invoked = <<"find_run", "await_containerrun">>
      /\ pc = "returned" => ret = 0 /\ Last(invoked) = "main_after_wait"

\* C24: a login() scope entered while a session is cached yields that
\* session and does not set the cache, and leaves the session cached when
\* it exits; only the scope that created the session, the outermost one,
\* clears it, on every exit, also when a body raises: while a scope is
\* open every open scope holds the cached session, and once no scope is
\* open the cache is unset.
C24_SessionClearedByCreatingScope ==
    /\ scopes = <<>> => session = 0
    /\ scopes # <<>> =>
          /\ session # 0
          /\ \A k \in 1..Len(scopes) :
                /\ scopes[k].kive = session
                /\ scopes[k].token.created <=> k = 1
                /\ scopes[k].token.old = IF k = 1 THEN 0 ELSE session
    /\ (entry = "login" /\ pc = "raised") => scopes = <<>>

\* A body raised inside the scopes of the second session of the process:
\* the first session was cleared at the end of its outermost scope, and
\* so was the second.
C24_Witness ==
    /\ entry = "login"
    /\ pc = "raised"
    /\ raised = "RuntimeError"
    /\ loginReqs = 2
    /\ session = 0


\* C25: KiveRun.from_json accepts a run that has not started: for a run
\* JSON with every key and start_time null it returns a record with
\* start_time None, and with end_time None when end_time is null too.
C25_UnstartedRunAccepted ==
    (entry = "KiveRun.from_json" /\ pc # "start"
        /\ fn_arg.missing = {} /\ fn_arg.start_time = JNull) =>
      /\ fn_result.exc = "none"
      /\ fn_result.val.start_time = NoTime
      /\ fn_arg.end_time = JNull => fn_result.val.end_time = NoTime


\* C26: when the count of the inputs passes, the run submitted binds every
\* resolved dataset, the script and each input given, to a declared input
\* argument of its own, in order: the dataset list of the run holds
\* 1 + inputs pairs, the k-th for the k-th dataset and the k-th argument.
C26_EveryDatasetBound ==
    (entry = "runkive.main" /\ effects # <<>>
        /\ Last(effects) = "containerruns.post") =>
      /\ Len(dataset_list) = 1 + inputs
      /\ \A k \in 1..Len(dataset_list) :
            /\ dataset_list[k].dataset = k
            /\ dataset_list[k].argument = k
            /\ dataset_list[k].argument <= input_appargs


Matching ==
    SelectSeq(run_datasets,
              LAMBDA d : matches(filefilter, DatasetInfo_coerce(d).val))

C29_LazySearch ==
    [][(entry \in {"fetch_paginated_results", "findruns.main"}
          /\ served' # served) =>
         /\ Len(served') = Len(served) + 1
         /\ Len(yielded) = Len(Flatten(served))
         /\ yielded' = yielded
         /\ served = <<>> \/ idx > Len(data.results)
         /\ entry = "findruns.main" => RunsWritten(stdout) = Len(yielded)
         /\ data' \in {data, Last(served').page}
         /\ data \in {NoPage, Last(<<Endless>> \o served).page}]_vars

\* main has written the two runs of the first page, and the second page
\* has just been requested.
C29_Witness ==
    /\ entry = "findruns.main"
    /\ pc = "iterate"
    /\ Len(served) = 2
    /\ Len(served[1].page.results) = 2
    /\ Len(yielded) = 2
    /\ RunsWritten(stdout) = 2
    /\ idx = 1
    /\ data = served[2].page
    /\ data.results # <<>>


\* The values of a call that are not None.
Given(call) == {k \in 1..Len(call.vals) : call.vals[k] # None}

\* C30: every build_search_query of the find* modules numbers the filters
\* it emits from 0 without a gap: for k values that are not None the
\* query holds page_size and exactly the filters numbered 0..k-1, one for
\* each value given, in the order of the parameters.
C30_FiltersNumberedFromZero ==
    (entry = "build_search_query" /\ pc = "returned") =>
      LET q == fn_result.val
          keys == filter_keys(fn_arg.module)
      IN  /\ q.page_size = DEFAULT_PAGESIZE
          /\ Cardinality(q.filters) = Cardinality(Given(fn_arg))
          /\ {f.i : f \in q.filters} = 0..(Cardinality(Given(fn_arg)) - 1)
          /\ \A f \in q.filters :
                \E k \in Given(fn_arg) :
                    /\ f.key = keys[k]
                    /\ f.val = fn_arg.vals[k]
                    /\ f.i = Cardinality({j \in Given(fn_arg) : j < k})

====
